---------------------------- MODULE Spec2Model ----------------------------
(***************************************************************************)
(* Model of the track management service: the latest-K ring buffer, the    *)
(* track store (TrackerManager) and the command scheduler                  *)
(* (ManagementService).                                                    *)
(***************************************************************************)
EXTENDS Integers, Sequences, FiniteSets, TLC

(***************************************************************************)
(* Bounds of the model and constants of the program.                       *)
(***************************************************************************)
\* number of slots of the pool (track_size of the constructor)
TrackCap == 2
\* capacity of every latest-K buffer (point_size of the constructor)
PointCap == 4
\* createTrack is not called once next_track_id_ has passed this value
MaxId == 3
\* number of calls that change the store in one behaviour
MaxCalls == 5
\* trackManager.cpp:6
MAX_EXTRAPOLATION_TIMES == 3
\* next_track_id_ is unsigned and wraps at this value (2^32 in the program,
\* scaled down; the guards of the callers keep the counter below it)
IdModulus == 8
\* number of calls that change the stores compared after clearAll
TwinCalls == 4
\* number of producer calls on the scheduler in one behaviour
MaxCmds == 2

Slots == 0 .. (TrackCap - 1)
Cells == 0 .. (PointCap - 1)
\* the ids a caller passes
Ids == 1 .. MaxId

VARIABLES
    tracker_manager_,   \* the TrackerManager object
    last,               \* the last call on the store: whether it succeeded, the id it returned
    run,                \* the current run of consecutive unassociated pushes
    clock,              \* number of calls that changed the store so far
    pushed,             \* per id, the number of points the caller has stored under it
    retired,            \* the ids that were live and were removed from the map
    cleared,            \* clearAll has been called
    twin                \* a second store and the result of the last call on it

VARIABLES
    command_queue_,     \* the queue of commands, oldest first
    create_buffer_,     \* the staging buffer of the CREATE payloads
    add_buffer_,        \* the staging buffer of the ADD payloads
    draw_buffer_,       \* the staging buffer of the DRAW payloads
    stop_flag_,         \* set by the destructor
    queue_mutex_,       \* the thread that holds the queue lock, or "none"
    buffer_mutex_,      \* the thread that holds the buffer lock, or "none"
    worker,             \* the worker thread: its position and its locals
    producer,           \* per producer thread, its position and the command it builds
    owner,              \* the position of the thread that destroys the service
    enqueued            \* number of commands pushed on the queue so far

VARIABLES
    facade              \* the ManagementServiceImpl object and its service thread

VARIABLES
    config,             \* the TrackConfig object
    loaded              \* the last call of reload: the file it was given, what it returned

VARIABLES
    wire,               \* the datagrams sendTo has handed to the network, in order
    sent,               \* the last call of sendData: its data, what it returned
    recv_buffer_,       \* the words received and not yet read
    receiver,           \* the receive thread: its position, the datagram it has read
    rxlog               \* the words appended, per datagram, and the vectors returned

VARIABLES
    ring                \* a LatestKBuffer used on its own, and the items pushed to it

VARIABLES
    is_receiving_,      \* TrackerComm::is_receiving_
    should_stop_,       \* TrackerComm::should_stop_
    thread_stopped_,    \* TrackerComm::thread_stopped_
    recv_thread_,       \* the thread the handle recv_thread_ refers to, 0 if not joinable
    rxthread,           \* the position of every receive thread started so far
    caller,             \* the position of every thread calling reload or the destructor
    crashed             \* whether std::terminate was called

storeVars == <<tracker_manager_, last, run, clock, pushed, retired, cleared, twin>>

schedVars == <<command_queue_, create_buffer_, add_buffer_, draw_buffer_, stop_flag_,
               queue_mutex_, buffer_mutex_, worker, producer, owner, enqueued>>

vars == <<tracker_manager_, last, run, clock, pushed, retired, cleared, twin,
          command_queue_, create_buffer_, add_buffer_, draw_buffer_, stop_flag_,
          queue_mutex_, buffer_mutex_, worker, producer, owner, enqueued,
          facade, config, loaded, wire, sent, recv_buffer_, receiver, rxlog,
          ring, is_receiving_, should_stop_, thread_stopped_, recv_thread_, rxthread,
          caller, crashed>>

facadeVars == <<facade>>

configVars == <<config, loaded>>

sendVars == <<wire, sent>>

recvVars == <<recv_buffer_, receiver, rxlog>>

commVars == <<sendVars, recvVars>>

ringVars == <<ring>>

lifeVars == <<is_receiving_, should_stop_, thread_stopped_, recv_thread_, rxthread, caller,
              crashed>>

\* the objects outside the store and the scheduler
otherVars == <<facadeVars, configVars, commVars, ringVars, lifeVars>>

(***************************************************************************)
(* TrackPoint and TrackerHeader.                                           *)
(***************************************************************************)
TrackPoint(lon, assoc) == [longitude |-> lon, is_associated |-> assoc]

NoPoint == TrackPoint(0, FALSE)

\* a default-constructed header
Header_init == [track_id |-> 0, extrapolation_count |-> 0, point_num |-> 0, state |-> 3]

Header_start(id) == [track_id |-> id, extrapolation_count |-> 0, point_num |-> 0, state |-> 0]

Header_clear == [track_id |-> 0, extrapolation_count |-> 0, point_num |-> 0, state |-> -1]

(***************************************************************************)
(* LatestKBuffer<T>: a ring of capacity_ cells.                             *)
(***************************************************************************)
Buffer_init ==
    [buffer_ |-> [c \in Cells |-> NoPoint], head_ |-> 0, tail_ |-> 0, size_ |-> 0, full_ |-> FALSE]

Buffer_clear(b) == [b EXCEPT !.head_ = 0, !.tail_ = 0, !.size_ = 0, !.full_ = FALSE]

\* _advance_head that leaves the oldest element where it was
Buffer_advance_head_KeepsTail(b) ==
    LET s == IF b.full_ THEN b.size_ ELSE b.size_ + 1
        h == (b.head_ + 1) % PointCap
    IN [b EXCEPT !.size_ = s, !.head_ = h, !.full_ = (h = b.tail_)]

Buffer_advance_head(b) ==
    LET t == IF b.full_ THEN (b.tail_ + 1) % PointCap ELSE b.tail_
        s == IF b.full_ THEN b.size_ ELSE b.size_ + 1
        h == (b.head_ + 1) % PointCap
    IN [b EXCEPT !.tail_ = t, !.size_ = s, !.head_ = h, !.full_ = (h = t)]

Buffer_push(b, item) == Buffer_advance_head([b EXCEPT !.buffer_[b.head_] = item])

\* operator[]: the cell a logical index names
Buffer_cell(b, index) == (b.tail_ + index) % PointCap

Buffer_at(b, index) == b.buffer_[Buffer_cell(b, index)]

\* the retained elements, oldest first
Buffer_elems(b) == [i \in 1 .. b.size_ |-> Buffer_at(b, i - 1)]

(***************************************************************************)
(* TrackerManager.                                                         *)
(***************************************************************************)
Container_init == [header |-> Header_init, data |-> Buffer_init]

Container_clear(c) == [header |-> Header_clear, data |-> Buffer_clear(c.data)]

TrackerManager_init ==
    [buffer_pool_ |-> [s \in Slots |-> Container_init],
     track_id_to_pool_index_ |-> <<>>,
     free_slots_ |-> [i \in 1 .. TrackCap |-> i - 1],
     next_track_id_ |-> 1]

isValidTrack(tm, track_id) == track_id \in DOMAIN tm.track_id_to_pool_index_

getUsedCount(tm) == Cardinality(DOMAIN tm.track_id_to_pool_index_)

MapErase(m, k) == [x \in (DOMAIN m) \ {k} |-> m[x]]

MapPut(m, k, v) == [x \in (DOMAIN m) \cup {k} |-> IF x = k THEN v ELSE m[x]]

\* a createTrack that advances the counter also when the pool is full
createTrack_FullAdvances(tm) ==
    IF tm.free_slots_ = <<>>
    THEN [tm |-> [tm EXCEPT !.next_track_id_ = (@ + 1) % IdModulus], ret |-> 0]
    ELSE LET pool_index == tm.free_slots_[Len(tm.free_slots_)]
             track_id == tm.next_track_id_
         IN [tm |-> [tm EXCEPT
                        !.free_slots_ = SubSeq(@, 1, Len(@) - 1),
                        !.track_id_to_pool_index_ = MapPut(@, track_id, pool_index),
                        !.buffer_pool_[pool_index].header = Header_start(track_id),
                        !.next_track_id_ = (@ + 1) % IdModulus],
             ret |-> track_id]

\* a createTrack that does not advance the counter
createTrack_SameId(tm) ==
    IF tm.free_slots_ = <<>>
    THEN [tm |-> tm, ret |-> 0]
    ELSE LET pool_index == tm.free_slots_[Len(tm.free_slots_)]
             track_id == tm.next_track_id_
         IN [tm |-> [tm EXCEPT
                        !.free_slots_ = SubSeq(@, 1, Len(@) - 1),
                        !.track_id_to_pool_index_ = MapPut(@, track_id, pool_index),
                        !.buffer_pool_[pool_index].header = Header_start(track_id)],
             ret |-> track_id]

createTrack(tm) ==
    IF tm.free_slots_ = <<>>
    THEN [tm |-> tm, ret |-> 0]
    ELSE LET pool_index == tm.free_slots_[Len(tm.free_slots_)]
             track_id == tm.next_track_id_
         IN [tm |-> [tm EXCEPT
                        !.free_slots_ = SubSeq(@, 1, Len(@) - 1),
                        !.track_id_to_pool_index_ = MapPut(@, track_id, pool_index),
                        !.buffer_pool_[pool_index].header = Header_start(track_id),
                        !.next_track_id_ = (@ + 1) % IdModulus],
             ret |-> track_id]

\* a deleteTrack that does not give the slot back
deleteTrack_KeepsSlot(tm, track_id) ==
    IF ~isValidTrack(tm, track_id)
    THEN [tm |-> tm, ret |-> FALSE]
    ELSE LET pool_index == tm.track_id_to_pool_index_[track_id]
         IN [tm |-> [tm EXCEPT
                        !.buffer_pool_[pool_index] = Container_clear(@),
                        !.track_id_to_pool_index_ = MapErase(@, track_id)],
             ret |-> TRUE]

\* a deleteTrack that takes the counter one back
deleteTrack_Rewinds(tm, track_id) ==
    IF ~isValidTrack(tm, track_id)
    THEN [tm |-> tm, ret |-> FALSE]
    ELSE LET pool_index == tm.track_id_to_pool_index_[track_id]
         IN [tm |-> [tm EXCEPT
                        !.buffer_pool_[pool_index] = Container_clear(@),
                        !.track_id_to_pool_index_ = MapErase(@, track_id),
                        !.free_slots_ = Append(@, pool_index),
                        !.next_track_id_ = @ - 1],
             ret |-> TRUE]

deleteTrack(tm, track_id) ==
    IF ~isValidTrack(tm, track_id)
    THEN [tm |-> tm, ret |-> FALSE]
    ELSE LET pool_index == tm.track_id_to_pool_index_[track_id]
         IN [tm |-> [tm EXCEPT
                        !.buffer_pool_[pool_index] = Container_clear(@),
                        !.track_id_to_pool_index_ = MapErase(@, track_id),
                        !.free_slots_ = Append(@, pool_index)],
             ret |-> TRUE]

\* a maximum that is its second argument
Max_Second(a, b) == b

Max(a, b) == IF a >= b THEN a ELSE b

\* a header update that lets the counter pass MAX_EXTRAPOLATION_TIMES
PushHeader_OneMore(h, point, size) ==
    IF point.is_associated
    THEN [h EXCEPT !.point_num = size,
                   !.extrapolation_count = Max(0, @ - 1),
                   !.state = 0]
    ELSE IF h.extrapolation_count <= MAX_EXTRAPOLATION_TIMES
    THEN [h EXCEPT !.point_num = size,
                   !.extrapolation_count = @ + 1,
                   !.state = 1]
    ELSE [h EXCEPT !.point_num = size, !.state = 2]

\* the header after a point was stored in a track that is not terminated
PushHeader(h, point, size) ==
    IF point.is_associated
    THEN [h EXCEPT !.point_num = size,
                   !.extrapolation_count = Max(0, @ - 1),
                   !.state = 0]
    ELSE IF h.extrapolation_count < MAX_EXTRAPOLATION_TIMES
    THEN [h EXCEPT !.point_num = size,
                   !.extrapolation_count = @ + 1,
                   !.state = 1]
    ELSE [h EXCEPT !.point_num = size, !.state = 2]

\* a push_track_point that reports a terminated track and leaves it in place
push_track_point_NoDelete(tm, track_id, point) ==
    IF ~isValidTrack(tm, track_id)
    THEN [tm |-> tm, ret |-> FALSE]
    ELSE LET pool_index == tm.track_id_to_pool_index_[track_id]
             stored == [tm EXCEPT !.buffer_pool_[pool_index].data = Buffer_push(@, point)]
             track == stored.buffer_pool_[pool_index]
         IN IF track.header.state = 2
            THEN [tm |-> stored, ret |-> FALSE]
            ELSE [tm |-> [stored EXCEPT !.buffer_pool_[pool_index].header =
                                            PushHeader(@, point, track.data.size_)],
                  ret |-> TRUE]

push_track_point(tm, track_id, point) ==
    IF ~isValidTrack(tm, track_id)
    THEN [tm |-> tm, ret |-> FALSE]
    ELSE LET pool_index == tm.track_id_to_pool_index_[track_id]
             stored == [tm EXCEPT !.buffer_pool_[pool_index].data = Buffer_push(@, point)]
             track == stored.buffer_pool_[pool_index]
         IN IF track.header.state = 2
            THEN [tm |-> deleteTrack(stored, track.header.track_id).tm, ret |-> FALSE]
            ELSE [tm |-> [stored EXCEPT !.buffer_pool_[pool_index].header =
                                            PushHeader(@, point, track.data.size_)],
                  ret |-> TRUE]

\* step 1 of merge_tracks: target.data[target_size - i] = source.data[source_size - i]
\* for i = from .. MAX_EXTRAPOLATION_TIMES, in this order
RECURSIVE MergeCopy(_, _, _, _, _, _)
MergeCopy(pool, tgt, src, target_size, source_size, from) ==
    IF from > MAX_EXTRAPOLATION_TIMES
    THEN pool
    ELSE MergeCopy(
            [pool EXCEPT ![tgt].data.buffer_[Buffer_cell(pool[tgt].data, target_size - from)] =
                             Buffer_at(pool[src].data, source_size - from)],
            tgt, src, target_size, source_size, from + 1)

\* step 2 of merge_tracks: std::swap of the two headers
SwapHeaders(pool, a, b) ==
    [pool EXCEPT ![a].header = pool[b].header, ![b].header = pool[a].header]

merge_tracks(tm, source_track_id, target_track_id) ==
    IF ~isValidTrack(tm, target_track_id) \/ ~isValidTrack(tm, source_track_id)
    THEN [tm |-> tm, ret |-> FALSE]
    ELSE LET target_pool_index == tm.track_id_to_pool_index_[target_track_id]
             source_pool_index == tm.track_id_to_pool_index_[source_track_id]
             target_size == tm.buffer_pool_[target_pool_index].data.size_
             source_size == tm.buffer_pool_[source_pool_index].data.size_
         IN IF target_size < MAX_EXTRAPOLATION_TIMES \/ source_size < MAX_EXTRAPOLATION_TIMES
            THEN [tm |-> tm, ret |-> FALSE]
            ELSE LET copied == MergeCopy(tm.buffer_pool_, target_pool_index,
                                         source_pool_index, target_size, source_size, 1)
                     swapped == SwapHeaders(copied, target_pool_index, source_pool_index)
                     remapped == [tm EXCEPT
                                     !.buffer_pool_ = swapped,
                                     !.track_id_to_pool_index_[source_track_id] =
                                         target_pool_index]
                 IN [tm |-> deleteTrack(remapped, target_track_id).tm, ret |-> TRUE]

\* a clearAll that keeps the counter
clearAll_KeepsCounter(tm) ==
    [buffer_pool_ |-> [s \in Slots |-> Container_clear(tm.buffer_pool_[s])],
     track_id_to_pool_index_ |-> <<>>,
     free_slots_ |-> [i \in 1 .. TrackCap |-> i - 1],
     next_track_id_ |-> tm.next_track_id_]

clearAll(tm) ==
    [buffer_pool_ |-> [s \in Slots |-> Container_clear(tm.buffer_pool_[s])],
     track_id_to_pool_index_ |-> <<>>,
     free_slots_ |-> [i \in 1 .. TrackCap |-> i - 1],
     next_track_id_ |-> 1]

(***************************************************************************)
(* Views of the store used by the properties.                              *)
(***************************************************************************)
\* the container an id resolves to
TrackOf(tm, track_id) == tm.buffer_pool_[tm.track_id_to_pool_index_[track_id]]

\* the cells of a buffer that hold its retained elements
Buffer_window(b) == {Buffer_cell(b, i) : i \in 0 .. (b.size_ - 1)}

\* what the operations of the store can tell of it: the header of a slot no id
\* refers to and the cells outside the retained elements are not read before
\* they are written
Visible(tm) ==
    [tm EXCEPT !.buffer_pool_ =
        [s \in Slots |->
            [header |-> IF \E id \in DOMAIN tm.track_id_to_pool_index_ :
                              tm.track_id_to_pool_index_[id] = s
                        THEN tm.buffer_pool_[s].header
                        ELSE Header_init,
             data |-> [tm.buffer_pool_[s].data EXCEPT !.buffer_ =
                          [c \in Cells |->
                              IF c \in Buffer_window(tm.buffer_pool_[s].data)
                              THEN tm.buffer_pool_[s].data.buffer_[c]
                              ELSE NoPoint]]]]]

FreeSet(tm) == {tm.free_slots_[i] : i \in 1 .. Len(tm.free_slots_)}

\* the ids that resolve to a slot
Owners(tm, s) ==
    {id \in DOMAIN tm.track_id_to_pool_index_ : tm.track_id_to_pool_index_[id] = s}

LastN(seq, n) == SubSeq(seq, Len(seq) - n + 1, Len(seq))

NoRun == [id |-> 0, n |-> 0, fresh |-> FALSE, hid |-> 0, used |-> 0]

\* The run of consecutive unassociated pushes on one id after this push: n is
\* their number.  A run starts on a live track whose extrapolation counter is 0
\* and is ended by any other call.  fresh: the track had just been created;
\* hid: the id in the header of the track's slot when the run started;
\* used: getUsedCount() before this push.
RunAfterPush(tm, r, track_id, point) ==
    IF point.is_associated
    THEN NoRun
    ELSE IF r.n >= 1 /\ r.n <= MAX_EXTRAPOLATION_TIMES + 1 /\ r.id = track_id
    THEN [r EXCEPT !.n = @ + 1, !.used = getUsedCount(tm)]
    ELSE IF isValidTrack(tm, track_id) /\ TrackOf(tm, track_id).header.extrapolation_count = 0
    THEN [id |-> track_id, n |-> 1,
          fresh |-> /\ TrackOf(tm, track_id).header = Header_start(track_id)
                    /\ TrackOf(tm, track_id).data.size_ = 0,
          hid |-> TrackOf(tm, track_id).header.track_id,
          used |-> getUsedCount(tm)]
    ELSE NoRun

(***************************************************************************)
(* The command scheduler (ManagementService): its data.                    *)
(***************************************************************************)
\* the order of the worker's pass over the command classes, which is also the
\* order of the enumerators of CommandType
PassOrder == <<"DRAW", "MERGE", "CREATE", "ADD", "CLEAR_ALL">>

Priority(type) == CHOOSE i \in 1 .. Len(PassOrder) : PassOrder[i] = type

\* the classes whose command carries a pointer to a staging buffer
Staged == {"CREATE", "ADD", "DRAW"}

\* the threads that call the service
Producers == {"p1", "p2"}

\* a command: type and merge_data as in the program; given is the payload its
\* producer call supplied, missed tells that it was pushed after the current
\* pass of the worker had finished the scan of its class, and late that it was
\* pushed after the stop flag was set
Command(type, source_track_id, target_track_id, given) ==
    [type |-> type, source_track_id |-> source_track_id,
     target_track_id |-> target_track_id, given |-> given, missed |-> FALSE,
     late |-> FALSE]

NoCommand == Command("NONE", 0, 0, <<>>)

\* the payloads the n-th producer call supplies: one array of four points,
\* one point for track 1, one point to draw
CreatePayload(n) == <<[k \in 1 .. 4 |-> TrackPoint(10 * n + k, TRUE)]>>

AddPayload(n, assoc) == <<[header |-> Header_start(1), point |-> TrackPoint(50 + n, assoc)]>>

DrawPayload(n) == <<TrackPoint(90 + n, FALSE)>>

MergePairs == {<<1, 2>>, <<2, 1>>}

\* the worker before its first pass; overtook tells that a command of a higher
\* class was left in the queue when cmd was extracted, prev is the class of the
\* command executed last and executed the number of commands executed
Worker_init ==
    [pc |-> "loop", step |-> 1, processed |-> FALSE, cmd |-> NoCommand, overtook |-> FALSE,
     prev |-> "NONE", executed |-> 0]

Producer_init == [pc |-> "idle", cmd |-> NoCommand]

\* the service after its constructor
ServiceConstructed ==
    /\ command_queue_ = <<>>
    /\ create_buffer_ = <<>>
    /\ add_buffer_ = <<>>
    /\ draw_buffer_ = <<>>
    /\ stop_flag_ = FALSE
    /\ queue_mutex_ = "none"
    /\ buffer_mutex_ = "none"
    /\ worker = Worker_init
    /\ producer = [p \in Producers |-> Producer_init]
    /\ owner = "alive"
    /\ enqueued = 0

\* number of pipeline buffers handed to the facade in one behaviour
MaxBuffers == 3

\* the facade after its constructor: the service thread is not started, the
\* store is allocated; store_thread is the thread that made the last call of a
\* store operation
Facade_init ==
    [running_ |-> FALSE, service |-> "none", buffer_queue_ |-> 0, batch |-> 0,
     accepted |-> 0, closing |-> "no", allocated |-> TRUE,
     tracker_manager_ |-> TrackerManager_init, store_thread |-> "none"]

\* number of lines of a configuration file
MaxLines == 4

\* the number of keys a file must give
direct_read_count == 4

\* the record of a TrackConfig before its first load
Config_init ==
    [trackmanager_recv_port |-> 5556, trackmanager_recv_filters |-> <<>>,
     trackmanager_dst_sockaddr |-> 0]

\* no file: the path cannot be opened
NoFile == <<[kind |-> "unopenable", key |-> "", value |-> <<>>]>>

\* a line "key = value" of a file, the value as its characters
KeyValue(key, value) == [kind |-> "kv", key |-> key, value |-> value]

\* a comment line (a line without '=' is skipped in the same way)
CommentLine == [kind |-> "comment", key |-> "", value |-> <<>>]

\* the lines of the files given to reload
ConfigLines ==
    {CommentLine,
     KeyValue("trackmanager_recv_port", <<"7", "0">>),
     KeyValue("trackmanager_recv_port", <<"7">>),
     KeyValue("trackmanager_recv_port", <<"7", "x">>),
     KeyValue("trackmanager_recv_port", <<"0">>),
     KeyValue("trackmanager_recv_filters", <<"P", ",", " ", "S">>),
     KeyValue("trackmanager_recv_filters", <<",">>),
     KeyValue("trackmanager_dst_ip", <<"1", ".", "1">>),
     KeyValue("trackmanager_dst_port", <<"7", "0">>)}

\* the files given to reload
ConfigFiles ==
    {NoFile} \cup UNION {[1 .. n -> ConfigLines] : n \in 0 .. MaxLines}

\* the receive thread at the top of its loop, before its first datagram
Receiver_init == [pc |-> "recv", dgram |-> <<>>, outcome |-> "none", count |-> 0]

\* a LatestKBuffer after its constructor, nothing pushed; cleared tells whether
\* clear was called
RingConstructed == ring = [buf |-> Buffer_init, pushed |-> <<>>, cleared |-> FALSE, ops |-> 0]

\* number of calls of reload in one behaviour
MaxReloads == 2

\* the receive threads that can be started: the one of the constructor and one
\* per call of reload
ThreadIds == 1 .. (MaxReloads + 1)

\* the threads that call into the TrackerComm object
Callers == {"a", "b"}

Caller_init == [pc |-> "idle", op |-> "none", target |-> 0, ret |-> "none", calls |-> 0]

\* the TrackerComm object after its constructor: startReceiveData has started
\* the first receive thread
ReceiveStarted ==
    /\ is_receiving_ = TRUE
    /\ should_stop_ = FALSE
    /\ thread_stopped_ = FALSE
    /\ recv_thread_ = 1
    /\ rxthread = [t \in ThreadIds |-> IF t = 1 THEN "test" ELSE "unborn"]
    /\ caller = [c \in Callers |-> Caller_init]
    /\ crashed = FALSE

\* the objects outside the store and the scheduler after their constructors
OthersConstructed ==
    /\ facade = Facade_init
    /\ config = Config_init
    /\ loaded = [file |-> NoFile, ret |-> FALSE, old |-> Config_init, called |-> FALSE]
    /\ wire = <<>>
    /\ sent = [data |-> <<>>, ret |-> FALSE, called |-> FALSE, socket_valid |-> TRUE]
    /\ recv_buffer_ = <<>>
    /\ receiver = Receiver_init
    /\ rxlog = [chunks |-> <<>>, accepted |-> <<>>, taken |-> <<>>]
    /\ RingConstructed
    /\ ReceiveStarted

(***************************************************************************)
(* The store driven directly by a caller (the unit tests' use of it).      *)
(***************************************************************************)
\* the second store before it is used
NoTwin == [tm |-> TrackerManager_init, ret |-> TRUE, id |-> 0]

\* the n-th point a caller builds for an id
PointFor(track_id, n, assoc) == TrackPoint(100 * track_id + n, assoc)

\* the store after the first n points of an id, all associated, were pushed
RECURSIVE PushN(_, _, _)
PushN(tm, track_id, n) ==
    IF n = 0
    THEN tm
    ELSE push_track_point(PushN(tm, track_id, n - 1), track_id,
                          PointFor(track_id, n, TRUE)).tm

\* a store after two tracks were created and na and nb points pushed to them
TwoTracksOn(tm, na, nb) ==
    LET one == createTrack(tm).tm
        two == createTrack(one).tm
    IN PushN(PushN(two, 1, na), 2, nb)

TwoTracks(na, nb) == TwoTracksOn(TrackerManager_init, na, nb)

\* the numbers of points of a started track: none, enough for a merge, and one
\* more than the buffer holds
StartSizes == {0, MAX_EXTRAPOLATION_TIMES, PointCap + 1}

StoreInit ==
    /\ \/ /\ tracker_manager_ = TrackerManager_init
          /\ pushed = [id \in Ids |-> 0]
       \/ \E na \in StartSizes, nb \in StartSizes :
             /\ tracker_manager_ = TwoTracks(na, nb)
             /\ pushed = [id \in Ids |-> IF id = 1 THEN na ELSE IF id = 2 THEN nb ELSE 0]
    /\ last = [op |-> "init", ret |-> TRUE, id |-> 0]
    /\ run = NoRun
    /\ clock = 0
    /\ retired = {}
    /\ cleared = FALSE
    /\ twin = NoTwin
    /\ ServiceConstructed
    /\ OthersConstructed

\* the ids a call has removed join the retired ones
Retire(tm) ==
    retired' = retired \cup ((DOMAIN tracker_manager_.track_id_to_pool_index_)
                                \ (DOMAIN tm.track_id_to_pool_index_))

\* the budget of calls: a call that changes the store uses one
Tick(tm) == clock' = IF tm = tracker_manager_ THEN clock ELSE clock + 1

CreateTrack ==
    /\ clock < MaxCalls
    /\ tracker_manager_.next_track_id_ <= MaxId
    /\ LET r == createTrack(tracker_manager_)
       IN /\ tracker_manager_' = r.tm
          /\ last' = [op |-> "create", ret |-> r.ret # 0, id |-> r.ret]
          /\ Tick(r.tm)
          /\ Retire(r.tm)
    /\ run' = NoRun
    /\ UNCHANGED pushed
    /\ UNCHANGED <<schedVars, otherVars>>
    /\ UNCHANGED twin
    /\ UNCHANGED cleared

DeleteTrack(track_id) ==
    /\ clock < MaxCalls
    /\ LET r == deleteTrack(tracker_manager_, track_id)
       IN /\ tracker_manager_' = r.tm
          /\ last' = [op |-> "delete", ret |-> r.ret, id |-> 0]
          /\ Tick(r.tm)
          /\ Retire(r.tm)
    /\ run' = NoRun
    /\ UNCHANGED pushed
    /\ UNCHANGED <<schedVars, otherVars>>
    /\ UNCHANGED twin
    /\ UNCHANGED cleared

PushTrackPoint(track_id, assoc) ==
    /\ clock < MaxCalls
    /\ LET point == PointFor(track_id, pushed[track_id] + 1, assoc)
           r == push_track_point(tracker_manager_, track_id, point)
       IN /\ tracker_manager_' = r.tm
          /\ last' = [op |-> "push", ret |-> r.ret, id |-> 0]
          /\ run' = RunAfterPush(tracker_manager_, run, track_id, point)
          /\ Tick(r.tm)
          /\ Retire(r.tm)
          /\ pushed' = IF r.tm = tracker_manager_
                       THEN pushed
                       ELSE [pushed EXCEPT ![track_id] = @ + 1]
    /\ UNCHANGED <<schedVars, otherVars>>
    /\ UNCHANGED twin
    /\ UNCHANGED cleared

MergeTracks(source_track_id, target_track_id) ==
    /\ clock < MaxCalls
    /\ LET r == merge_tracks(tracker_manager_, source_track_id, target_track_id)
       IN /\ tracker_manager_' = r.tm
          /\ last' = [op |-> "merge", ret |-> r.ret, id |-> 0]
          /\ Tick(r.tm)
          /\ Retire(r.tm)
    /\ run' = NoRun
    /\ UNCHANGED pushed
    /\ UNCHANGED <<schedVars, otherVars>>
    /\ UNCHANGED twin
    /\ UNCHANGED cleared

ClearAll ==
    /\ clock < MaxCalls
    /\ tracker_manager_' = clearAll(tracker_manager_)
    /\ last' = [op |-> "clear", ret |-> TRUE, id |-> 0]
    /\ Tick(clearAll(tracker_manager_))
    /\ Retire(clearAll(tracker_manager_))
    /\ cleared' = TRUE
    /\ run' = NoRun
    /\ UNCHANGED pushed
    /\ UNCHANGED <<schedVars, otherVars>>
    /\ UNCHANGED twin

StoreNext ==
    \/ CreateTrack
    \/ \E track_id \in Ids : DeleteTrack(track_id)
    \/ \E track_id \in Ids, assoc \in BOOLEAN : PushTrackPoint(track_id, assoc)
    \/ \E s \in Ids, t \in Ids : MergeTracks(s, t)
    \/ ClearAll

StoreSpec == StoreInit /\ [][StoreNext]_vars

(***************************************************************************)
(* The store over a long life: tracks are created and deleted until the    *)
(* counter of the ids wraps.                                               *)
(***************************************************************************)
\* the ids the counter runs through
AllIds == 0 .. (IdModulus - 1)

WrapInit ==
    /\ tracker_manager_ = TrackerManager_init
    /\ pushed = [id \in Ids |-> 0]
    /\ last = [op |-> "init", ret |-> TRUE, id |-> 0]
    /\ run = NoRun
    /\ clock = 0
    /\ retired = {}
    /\ cleared = FALSE
    /\ twin = NoTwin
    /\ ServiceConstructed
    /\ OthersConstructed

WrapCreate ==
    /\ LET r == createTrack(tracker_manager_)
       IN /\ tracker_manager_' = r.tm
          /\ last' = [op |-> "create", ret |-> r.tm # tracker_manager_, id |-> r.ret]
    /\ UNCHANGED <<run, clock, pushed, retired, cleared>>
    /\ UNCHANGED <<schedVars, otherVars>>
    /\ UNCHANGED twin

WrapDelete(track_id) ==
    /\ LET r == deleteTrack(tracker_manager_, track_id)
       IN /\ tracker_manager_' = r.tm
          /\ last' = [op |-> "delete", ret |-> r.ret, id |-> 0]
    /\ UNCHANGED <<run, clock, pushed, retired, cleared>>
    /\ UNCHANGED <<schedVars, otherVars>>
    /\ UNCHANGED twin

WrapNext ==
    \/ WrapCreate
    \/ \E track_id \in AllIds : WrapDelete(track_id)

WrapSpec == WrapInit /\ [][WrapNext]_vars

(***************************************************************************)
(* A store after clearAll and a freshly constructed store, given the same  *)
(* calls.                                                                  *)
(***************************************************************************)
\* stores that have been used: tracks with points, a merge, a terminated track
UsedStores ==
    {TwoTracks(0, 0), TwoTracks(PointCap + 1, MAX_EXTRAPOLATION_TIMES)}
        \cup {merge_tracks(TwoTracks(MAX_EXTRAPOLATION_TIMES, PointCap + 1), 2, 1).tm,
              deleteTrack(TwoTracks(PointCap + 1, 0), 1).tm}

\* clearAll has returned on a used store, and the cleared store and a fresh one
\* may already have been given the same creates and pushes
ClearedInit ==
    /\ \E used \in UsedStores :
          \/ /\ tracker_manager_ = clearAll(used)
             /\ twin = NoTwin
             /\ last = [op |-> "clear", ret |-> TRUE, id |-> 0]
             /\ pushed = [id \in Ids |-> 0]
          \/ \E na \in StartSizes, nb \in StartSizes :
                /\ tracker_manager_ = TwoTracksOn(clearAll(used), na, nb)
                /\ twin = [tm |-> TwoTracks(na, nb), ret |-> TRUE, id |-> 0]
                /\ last = [op |-> "init", ret |-> TRUE, id |-> 0]
                /\ pushed = [id \in Ids |-> IF id = 1 THEN na ELSE IF id = 2 THEN nb ELSE 0]
    /\ run = NoRun
    /\ clock = 0
    /\ retired = {}
    /\ cleared = TRUE
    /\ ServiceConstructed
    /\ OthersConstructed

TwinCreate ==
    /\ clock < TwinCalls
    /\ tracker_manager_.next_track_id_ <= MaxId
    /\ LET r == createTrack(tracker_manager_)
           f == createTrack(twin.tm)
       IN /\ tracker_manager_' = r.tm
          /\ last' = [op |-> "create", ret |-> r.ret # 0, id |-> r.ret]
          /\ twin' = [tm |-> f.tm, ret |-> f.ret # 0, id |-> f.ret]
          /\ Tick(r.tm)
    /\ UNCHANGED <<run, pushed, retired, cleared>>
    /\ UNCHANGED <<schedVars, otherVars>>

TwinDelete(track_id) ==
    /\ clock < TwinCalls
    /\ LET r == deleteTrack(tracker_manager_, track_id)
           f == deleteTrack(twin.tm, track_id)
       IN /\ tracker_manager_' = r.tm
          /\ last' = [op |-> "delete", ret |-> r.ret, id |-> 0]
          /\ twin' = [tm |-> f.tm, ret |-> f.ret, id |-> 0]
          /\ Tick(r.tm)
    /\ UNCHANGED <<run, pushed, retired, cleared>>
    /\ UNCHANGED <<schedVars, otherVars>>

TwinPush(track_id, assoc) ==
    /\ clock < TwinCalls
    /\ LET point == PointFor(track_id, pushed[track_id] + 1, assoc)
           r == push_track_point(tracker_manager_, track_id, point)
           f == push_track_point(twin.tm, track_id, point)
       IN /\ tracker_manager_' = r.tm
          /\ last' = [op |-> "push", ret |-> r.ret, id |-> 0]
          /\ twin' = [tm |-> f.tm, ret |-> f.ret, id |-> 0]
          /\ Tick(r.tm)
          /\ pushed' = IF r.tm = tracker_manager_
                       THEN pushed
                       ELSE [pushed EXCEPT ![track_id] = @ + 1]
    /\ UNCHANGED <<run, retired, cleared>>
    /\ UNCHANGED <<schedVars, otherVars>>

TwinMerge(source_track_id, target_track_id) ==
    /\ clock < TwinCalls
    /\ LET r == merge_tracks(tracker_manager_, source_track_id, target_track_id)
           f == merge_tracks(twin.tm, source_track_id, target_track_id)
       IN /\ tracker_manager_' = r.tm
          /\ last' = [op |-> "merge", ret |-> r.ret, id |-> 0]
          /\ twin' = [tm |-> f.tm, ret |-> f.ret, id |-> 0]
          /\ Tick(r.tm)
    /\ UNCHANGED <<run, pushed, retired, cleared>>
    /\ UNCHANGED <<schedVars, otherVars>>

ClearedNext ==
    \/ TwinCreate
    \/ \E track_id \in Ids : TwinDelete(track_id)
    \/ \E track_id \in Ids, assoc \in BOOLEAN : TwinPush(track_id, assoc)
    \/ \E s \in Ids, t \in Ids : TwinMerge(s, t)

ClearedSpec == ClearedInit /\ [][ClearedNext]_vars

(***************************************************************************)
(* The command scheduler: what the worker does with a command.             *)
(***************************************************************************)
\* the inner loop pushing the last point of the array only
CreatePoints_LastOnly(tm, track_id, track_array, k) ==
    IF k > Len(track_array)
    THEN [tm |-> tm, ok |-> TRUE]
    ELSE [tm |-> push_track_point(tm, track_id, track_array[Len(track_array)]).tm, ok |-> TRUE]

\* the inner loop of process_create: pushes track_array[k], ..; a failed push
\* deletes the track and ends the whole command (the push is made once and its
\* result r used for the test and for what follows)
RECURSIVE CreatePoints(_, _, _, _)
CreatePoints(tm, track_id, track_array, k) ==
    IF k > Len(track_array)
    THEN [tm |-> tm, ok |-> TRUE]
    ELSE LET After(r) == IF ~r.ret
                         THEN [tm |-> deleteTrack(r.tm, track_id).tm, ok |-> FALSE]
                         ELSE CreatePoints(r.tm, track_id, track_array, k + 1)
         IN CHOOSE out \in {After(r) : r \in {push_track_point(tm, track_id, track_array[k])}} :
                TRUE

\* process_create from the i-th array of the payload on
RECURSIVE process_create(_, _, _)
process_create(tm, new_track, i) ==
    IF i > Len(new_track)
    THEN tm
    ELSE LET After(r) == IF r.ok THEN process_create(r.tm, new_track, i + 1) ELSE r.tm
         IN CHOOSE out \in {After(r) : r \in {CreatePoints(c.tm, c.ret, new_track[i], 1) :
                                                   c \in {createTrack(tm)}}} : TRUE

\* process_add from the i-th pair of the payload on
RECURSIVE process_add(_, _, _)
process_add(tm, updated_track, i) ==
    IF i > Len(updated_track)
    THEN tm
    ELSE process_add(push_track_point(tm, updated_track[i].header.track_id,
                                      updated_track[i].point).tm,
                     updated_track, i + 1)

process_merge(tm, source_track_id, target_track_id) ==
    merge_tracks(tm, source_track_id, target_track_id).tm

process_clear_all(tm) == clearAll(tm)

\* the staging buffer the pointer of a command of this type refers to
StagingOf(type) ==
    CASE type = "CREATE" -> create_buffer_
      [] type = "ADD" -> add_buffer_
      [] type = "DRAW" -> draw_buffer_
      [] OTHER -> <<>>

\* process_command: the store after the command
process_command(tm, cmd) ==
    CASE cmd.type = "DRAW" -> tm
      [] cmd.type = "MERGE" -> process_merge(tm, cmd.source_track_id, cmd.target_track_id)
      [] cmd.type = "CREATE" -> process_create(tm, create_buffer_, 1)
      [] cmd.type = "ADD" -> process_add(tm, add_buffer_, 1)
      [] cmd.type = "CLEAR_ALL" -> process_clear_all(tm)
      [] OTHER -> tm

\* a scan that takes the last command of the type
FirstOfType_Last(queue, type) ==
    IF \E i \in 1 .. Len(queue) : queue[i].type = type
    THEN CHOOSE i \in 1 .. Len(queue) :
            /\ queue[i].type = type
            /\ \A j \in (i + 1) .. Len(queue) : queue[j].type # type
    ELSE 0

\* the position in the queue of the first command of a type, 0 if there is none
FirstOfType(queue, type) ==
    IF \E i \in 1 .. Len(queue) : queue[i].type = type
    THEN CHOOSE i \in 1 .. Len(queue) :
            /\ queue[i].type = type
            /\ \A j \in 1 .. (i - 1) : queue[j].type # type
    ELSE 0

\* the queue without its i-th command, the others in their order
Without(queue, i) == [j \in 1 .. (Len(queue) - 1) |-> IF j < i THEN queue[j] ELSE queue[j + 1]]

\* some command of the queue is of a higher class than the type
HigherPending(queue, type) ==
    \E i \in 1 .. Len(queue) : Priority(queue[i].type) < Priority(type)

\* a pass that scans the MERGE class before the DRAW class
ClassAt_MergeFirst(k) == PassOrder[IF k = 1 THEN 2 ELSE IF k = 2 THEN 1 ELSE k]

\* a pass that scans the ADD class before the CREATE class
ClassAt_AddFirst(k) == PassOrder[IF k = 3 THEN 4 ELSE IF k = 4 THEN 3 ELSE k]

\* the class the k-th scan of a pass is for
ClassAt(k) == PassOrder[k]

\* the worker leaves the scan of its class: next class, or the end of the pass
LeaveClass(w) ==
    IF w.step < Len(PassOrder)
    THEN [w EXCEPT !.pc = "scan", !.step = w.step + 1]
    ELSE [w EXCEPT !.pc = "endpass"]

\* the current pass of the worker has finished its scan for the class
Passed(w, type) ==
    /\ w.pc \in {"scan", "locked", "exec"}
    /\ \E k \in 1 .. (w.step - 1) : ClassAt(k) = type

\* a notification that does not reach the worker
Notified_Lost(w) == w

\* queue_cv_.notify_one / notify_all: a worker blocked in the wait re-checks
Notified(w) == IF w.pc = "blocked" THEN [w EXCEPT !.pc = "wait"] ELSE w

(***************************************************************************)
(* The command scheduler: the worker thread, the producers, the owner.     *)
(***************************************************************************)
SchedInit ==
    /\ tracker_manager_ = TrackerManager_init
    /\ last = [op |-> "init", ret |-> TRUE, id |-> 0]
    /\ run = NoRun
    /\ clock = 0
    /\ retired = {}
    /\ cleared = FALSE
    /\ twin = NoTwin
    /\ pushed = [id \in Ids |-> 0]
    /\ ServiceConstructed
    /\ OthersConstructed

\* worker_thread: the test of the outer loop and the start of a pass
WorkerLoop ==
    /\ worker.pc = "loop"
    /\ worker' = IF stop_flag_
                 THEN [worker EXCEPT !.pc = "done"]
                 ELSE [worker EXCEPT !.pc = "scan", !.step = 1, !.processed = FALSE]
    /\ command_queue_' = [i \in 1 .. Len(command_queue_) |->
                             [command_queue_[i] EXCEPT !.missed = FALSE]]
    /\ UNCHANGED <<create_buffer_, add_buffer_, draw_buffer_, stop_flag_,
                   queue_mutex_, buffer_mutex_, producer, owner, enqueued>>
    /\ UNCHANGED <<storeVars, otherVars>>

\* process_commands_by_type: the test of its loop and the locking of the queue
WorkerLock ==
    /\ worker.pc = "scan"
    /\ IF stop_flag_
       THEN /\ worker' = LeaveClass(worker)
            /\ UNCHANGED queue_mutex_
       ELSE /\ queue_mutex_ = "none"
            /\ queue_mutex_' = "worker"
            /\ worker' = [worker EXCEPT !.pc = "locked"]
    /\ UNCHANGED <<command_queue_, create_buffer_, add_buffer_, draw_buffer_, stop_flag_,
                   buffer_mutex_, producer, owner, enqueued>>
    /\ UNCHANGED <<storeVars, otherVars>>

\* a scan that keeps the queue locked for the execution of the command it found
WorkerScan_KeepsLock ==
    /\ worker.pc = "locked"
    /\ LET i == FirstOfType(command_queue_, ClassAt(worker.step))
       IN IF i # 0
          THEN /\ command_queue_' = Without(command_queue_, i)
               /\ worker' = [worker EXCEPT
                                !.pc = "exec", !.cmd = command_queue_[i],
                                !.processed = TRUE,
                                !.overtook = HigherPending(Without(command_queue_, i),
                                                           command_queue_[i].type)]
          ELSE /\ UNCHANGED command_queue_
               /\ worker' = LeaveClass(worker)
    /\ queue_mutex_' = IF FirstOfType(command_queue_, ClassAt(worker.step)) # 0
                       THEN "worker" ELSE "none"
    /\ UNCHANGED <<create_buffer_, add_buffer_, draw_buffer_, stop_flag_,
                   buffer_mutex_, producer, owner, enqueued>>
    /\ UNCHANGED <<storeVars, otherVars>>

\* process_commands_by_type: the scan of the queue under the lock
WorkerScan ==
    /\ worker.pc = "locked"
    /\ LET i == FirstOfType(command_queue_, ClassAt(worker.step))
       IN IF i # 0
          THEN /\ command_queue_' = Without(command_queue_, i)
               /\ worker' = [worker EXCEPT
                                !.pc = "exec", !.cmd = command_queue_[i],
                                !.processed = TRUE,
                                !.overtook = HigherPending(Without(command_queue_, i),
                                                           command_queue_[i].type)]
          ELSE /\ UNCHANGED command_queue_
               /\ worker' = LeaveClass(worker)
    /\ queue_mutex_' = "none"
    /\ UNCHANGED <<create_buffer_, add_buffer_, draw_buffer_, stop_flag_,
                   buffer_mutex_, producer, owner, enqueued>>
    /\ UNCHANGED <<storeVars, otherVars>>

\* process_commands_by_type: process_command on the extracted command
WorkerExec ==
    /\ worker.pc = "exec"
    /\ tracker_manager_' = process_command(tracker_manager_, worker.cmd)
    /\ worker' = [worker EXCEPT !.pc = "scan", !.cmd = NoCommand, !.overtook = FALSE,
                                !.prev = worker.cmd.type, !.executed = @ + 1]
    /\ UNCHANGED <<command_queue_, create_buffer_, add_buffer_, draw_buffer_, stop_flag_,
                   queue_mutex_, buffer_mutex_, producer, owner, enqueued>>
    /\ UNCHANGED <<last, run, clock, pushed, retired, cleared, twin>>
    /\ UNCHANGED otherVars

\* worker_thread: after the five scans (draw_track reads the store only)
WorkerEndPass ==
    /\ worker.pc = "endpass"
    /\ worker' = [worker EXCEPT !.pc = IF ~worker.processed /\ ~stop_flag_
                                       THEN "wait" ELSE "loop"]
    /\ UNCHANGED <<command_queue_, create_buffer_, add_buffer_, draw_buffer_, stop_flag_,
                   queue_mutex_, buffer_mutex_, producer, owner, enqueued>>
    /\ UNCHANGED <<storeVars, otherVars>>

\* a wait that blocks without looking at the queue
WorkerWait_NoPredicate ==
    /\ worker.pc = "wait"
    /\ queue_mutex_ = "none"
    /\ worker' = [worker EXCEPT !.pc = IF stop_flag_ THEN "loop" ELSE "blocked"]
    /\ UNCHANGED <<command_queue_, create_buffer_, add_buffer_, draw_buffer_, stop_flag_,
                   queue_mutex_, buffer_mutex_, producer, owner, enqueued>>
    /\ UNCHANGED <<storeVars, otherVars>>

\* worker_thread: queue_cv_.wait with its predicate, evaluated under the lock
WorkerWait ==
    /\ worker.pc = "wait"
    /\ queue_mutex_ = "none"
    /\ worker' = [worker EXCEPT !.pc = IF command_queue_ # <<>> \/ stop_flag_
                                       THEN "loop" ELSE "blocked"]
    /\ UNCHANGED <<command_queue_, create_buffer_, add_buffer_, draw_buffer_, stop_flag_,
                   queue_mutex_, buffer_mutex_, producer, owner, enqueued>>
    /\ UNCHANGED <<storeVars, otherVars>>

\* number of producer calls begun so far
Calls == enqueued + Cardinality({p \in Producers : producer[p].pc # "idle"})

\* create_track_command, add_track_command, draw_point_command: the buffer
\* lock is taken and the payload copied to the staging buffer of its kind
ProducerStage(p, type, payload) ==
    /\ owner = "alive"
    /\ producer[p].pc = "idle"
    /\ Calls < MaxCmds
    /\ buffer_mutex_ = "none"
    /\ buffer_mutex_' = p
    /\ create_buffer_' = IF type = "CREATE" THEN payload ELSE create_buffer_
    /\ add_buffer_' = IF type = "ADD" THEN payload ELSE add_buffer_
    /\ draw_buffer_' = IF type = "DRAW" THEN payload ELSE draw_buffer_
    /\ producer' = [producer EXCEPT ![p] = [pc |-> "staged",
                                            cmd |-> Command(type, 0, 0, payload)]]
    /\ UNCHANGED <<command_queue_, stop_flag_, queue_mutex_, worker, owner, enqueued>>
    /\ UNCHANGED <<storeVars, otherVars>>

\* the same three calls: the queue lock is taken inside the buffer lock
ProducerLock(p) ==
    /\ producer[p].pc = "staged"
    /\ queue_mutex_ = "none"
    /\ queue_mutex_' = p
    /\ producer' = [producer EXCEPT ![p].pc = "locked"]
    /\ UNCHANGED <<command_queue_, create_buffer_, add_buffer_, draw_buffer_, stop_flag_,
                   buffer_mutex_, worker, owner, enqueued>>
    /\ UNCHANGED <<storeVars, otherVars>>

\* merge_command, clear_all_command: the command is built and the queue locked
ProducerCall(p, type, source_track_id, target_track_id) ==
    /\ owner = "alive"
    /\ producer[p].pc = "idle"
    /\ Calls < MaxCmds
    /\ queue_mutex_ = "none"
    /\ queue_mutex_' = p
    /\ producer' = [producer EXCEPT ![p] =
                       [pc |-> "locked",
                        cmd |-> Command(type, source_track_id, target_track_id, <<>>)]]
    /\ UNCHANGED <<command_queue_, create_buffer_, add_buffer_, draw_buffer_, stop_flag_,
                   buffer_mutex_, worker, owner, enqueued>>
    /\ UNCHANGED <<storeVars, otherVars>>

\* every producer call: push, notify_one, and the locks are released
ProducerPush(p) ==
    /\ producer[p].pc = "locked"
    /\ command_queue_' = Append(command_queue_,
                                [producer[p].cmd EXCEPT
                                    !.missed = Passed(worker, producer[p].cmd.type),
                                    !.late = stop_flag_])
    /\ enqueued' = enqueued + 1
    /\ worker' = Notified(worker)
    /\ queue_mutex_' = "none"
    /\ buffer_mutex_' = IF buffer_mutex_ = p THEN "none" ELSE buffer_mutex_
    /\ producer' = [producer EXCEPT ![p] = Producer_init]
    /\ UNCHANGED <<create_buffer_, add_buffer_, draw_buffer_, stop_flag_, owner>>
    /\ UNCHANGED <<storeVars, otherVars>>

\* the destructor: the stop flag is set
OwnerStop ==
    /\ owner = "alive"
    /\ stop_flag_' = TRUE
    /\ owner' = "stopping"
    /\ UNCHANGED <<command_queue_, create_buffer_, add_buffer_, draw_buffer_,
                   queue_mutex_, buffer_mutex_, worker, producer, enqueued>>
    /\ UNCHANGED <<storeVars, otherVars>>

\* the destructor: notify_all under the queue lock
OwnerNotify ==
    /\ owner = "stopping"
    /\ queue_mutex_ = "none"
    /\ worker' = Notified(worker)
    /\ owner' = "joining"
    /\ UNCHANGED <<command_queue_, create_buffer_, add_buffer_, draw_buffer_, stop_flag_,
                   queue_mutex_, buffer_mutex_, producer, enqueued>>
    /\ UNCHANGED <<storeVars, otherVars>>

\* the destructor: the worker is joined and the staging buffers are cleared
OwnerJoin ==
    /\ owner = "joining"
    /\ worker.pc = "done"
    /\ buffer_mutex_ = "none"
    /\ create_buffer_' = <<>>
    /\ add_buffer_' = <<>>
    /\ draw_buffer_' = <<>>
    /\ owner' = "destroyed"
    /\ UNCHANGED <<command_queue_, stop_flag_, queue_mutex_, buffer_mutex_,
                   worker, producer, enqueued>>
    /\ UNCHANGED <<storeVars, otherVars>>

SchedNext ==
    \/ WorkerLoop
    \/ WorkerLock
    \/ WorkerScan
    \/ WorkerExec
    \/ WorkerEndPass
    \/ WorkerWait
    \/ \E p \in Producers : ProducerStage(p, "CREATE", CreatePayload(Calls + 1))
    \/ \E p \in Producers, assoc \in BOOLEAN :
          ProducerStage(p, "ADD", AddPayload(Calls + 1, assoc))
    \/ \E p \in Producers : ProducerStage(p, "DRAW", DrawPayload(Calls + 1))
    \/ \E p \in Producers : ProducerLock(p)
    \/ \E p \in Producers, m \in MergePairs : ProducerCall(p, "MERGE", m[1], m[2])
    \/ \E p \in Producers : ProducerCall(p, "CLEAR_ALL", 0, 0)
    \/ \E p \in Producers : ProducerPush(p)
    \/ OwnerStop
    \/ OwnerNotify
    \/ OwnerJoin

SchedSpec == SchedInit /\ [][SchedNext]_vars

\* the steps of the worker thread
WorkerStep ==
    \/ WorkerLoop
    \/ WorkerLock
    \/ WorkerScan
    \/ WorkerExec
    \/ WorkerEndPass
    \/ WorkerWait

\* a step of a thread that is running: the worker thread, the destructor, or
\* a producer inside a call (it holds or awaits a lock)
ThreadStep ==
    \/ WorkerStep
    \/ OwnerNotify
    \/ OwnerJoin
    \/ \E p \in Producers : ProducerLock(p) \/ ProducerPush(p)

\* the scheduler on a machine that goes on running a thread that can run
SchedFairSpec == SchedInit /\ [][SchedNext]_vars /\ WF_vars(ThreadStep)

(***************************************************************************)
(* The service facade: its service thread and the threads that call it.    *)
(***************************************************************************)
\* onTrackFusion: the store after the call
onTrackFusion(tm, source_track_id, target_track_id) ==
    IF ~isValidTrack(tm, source_track_id)
    THEN tm
    ELSE IF ~isValidTrack(tm, target_track_id)
         THEN tm
         ELSE merge_tracks(tm, source_track_id, target_track_id).tm

FacadeInit ==
    /\ tracker_manager_ = TrackerManager_init
    /\ last = [op |-> "init", ret |-> TRUE, id |-> 0]
    /\ run = NoRun
    /\ clock = 0
    /\ retired = {}
    /\ cleared = FALSE
    /\ twin = NoTwin
    /\ pushed = [id \in Ids |-> 0]
    /\ ServiceConstructed
    /\ OthersConstructed

\* start: the service thread is created
FacadeStart ==
    /\ facade.closing = "no"
    /\ ~facade.running_
    /\ facade.service \in {"none", "done"}
    /\ facade' = [facade EXCEPT !.running_ = TRUE, !.service = "loop"]
    /\ UNCHANGED <<storeVars, schedVars, configVars, commVars, ringVars, lifeVars>>

\* stop and the destructor: the flag is cleared and the thread notified
FacadeStop ==
    /\ facade.closing = "no"
    /\ facade.running_
    /\ facade' = [facade EXCEPT !.running_ = FALSE, !.closing = "joining"]
    /\ UNCHANGED <<storeVars, schedVars, configVars, commVars, ringVars, lifeVars>>

\* shutdown: the service thread is joined and the components are released
FacadeShutdown ==
    /\ facade.closing = "joining"
    /\ facade.service = "done"
    /\ facade' = [facade EXCEPT !.closing = "closed", !.allocated = FALSE]
    /\ UNCHANGED <<storeVars, schedVars, configVars, commVars, ringVars, lifeVars>>

\* serviceThread: the test of its loop and the swap of the buffer queue
ServiceLoop ==
    /\ facade.service = "loop"
    /\ \/ /\ ~facade.running_
          /\ facade' = [facade EXCEPT !.service = "done"]
       \/ /\ facade.running_
          /\ facade.buffer_queue_ > 0
          /\ facade' = [facade EXCEPT !.service = "process",
                                      !.batch = facade.buffer_queue_,
                                      !.buffer_queue_ = 0]
    /\ UNCHANGED <<storeVars, schedVars, configVars, commVars, ringVars, lifeVars>>

\* serviceThread: processPipelineBuffer on the next buffer of the batch (it
\* logs the points and calls nothing of the store)
ServiceProcess ==
    /\ facade.service = "process"
    /\ facade' = IF facade.batch > 0
                 THEN [facade EXCEPT !.batch = facade.batch - 1]
                 ELSE [facade EXCEPT !.service = "loop"]
    /\ UNCHANGED <<storeVars, schedVars, configVars, commVars, ringVars, lifeVars>>

\* onPipelineComplete, called by thread p: the buffer is queued
OnPipelineComplete(p) ==
    /\ facade.closing = "no"
    /\ facade.accepted < MaxBuffers
    /\ facade' = [facade EXCEPT !.buffer_queue_ = facade.buffer_queue_ + 1,
                                !.accepted = facade.accepted + 1]
    /\ UNCHANGED <<storeVars, schedVars, configVars, commVars, ringVars, lifeVars>>

\* onTrackFusion, called by thread p: isValidTrack and merge_tracks are called
\* on the store in the calling thread
OnTrackFusion(p, source_track_id, target_track_id) ==
    /\ facade.closing = "no"
    /\ facade.allocated
    /\ facade' = [facade EXCEPT
                     !.tracker_manager_ = onTrackFusion(facade.tracker_manager_,
                                                        source_track_id, target_track_id),
                     !.store_thread = p]
    /\ UNCHANGED <<storeVars, schedVars, configVars, commVars, ringVars, lifeVars>>

\* getActiveTrackCount, called by thread p: getUsedCount is called on the
\* store in the calling thread
GetActiveTrackCount(p) ==
    /\ facade.closing = "no"
    /\ facade.allocated
    /\ facade' = [facade EXCEPT !.store_thread = p]
    /\ UNCHANGED <<storeVars, schedVars, configVars, commVars, ringVars, lifeVars>>

FacadeNext ==
    \/ FacadeStart
    \/ FacadeStop
    \/ FacadeShutdown
    \/ ServiceLoop
    \/ ServiceProcess
    \/ \E p \in Producers : OnPipelineComplete(p)
    \/ \E p \in Producers, m \in MergePairs : OnTrackFusion(p, m[1], m[2])
    \/ \E p \in Producers : GetActiveTrackCount(p)

FacadeSpec == FacadeInit /\ [][FacadeNext]_vars

(***************************************************************************)
(* The configuration loader.                                               *)
(***************************************************************************)
Digits == {"0", "1", "7", "9"}

DigitValue(ch) == CASE ch = "0" -> 0 [] ch = "1" -> 1 [] ch = "7" -> 7 [] OTHER -> 9

\* std::stoi: the digits at the front of the text; pos is the number of
\* characters read, 0 when there is no digit at the front (invalid_argument)
RECURSIVE stoi(_, _, _)
stoi(text, pos, value) ==
    IF pos < Len(text) /\ text[pos + 1] \in Digits
    THEN stoi(text, pos + 1, 10 * value + DigitValue(text[pos + 1]))
    ELSE [pos |-> pos, value |-> value]

\* parsePort: the port is written only when the whole text is a number in
\* 1 .. 65535
parsePort(portStr, outPort) ==
    LET r == stoi(portStr, 0, 0)
    IN IF r.pos = 0 \/ r.pos # Len(portStr) \/ r.value < 1 \/ r.value > 65535
       THEN [ok |-> FALSE, port |-> outPort]
       ELSE [ok |-> TRUE, port |-> r.value]

\* the position of the first ',' at or after start, Len + 1 if there is none
RECURSIVE FindComma(_, _)
FindComma(text, start) ==
    IF start > Len(text) \/ text[start] = ","
    THEN start
    ELSE FindComma(text, start + 1)

\* a text without its leading and trailing blanks
RECURSIVE trim(_)
trim(text) ==
    IF text = <<>> THEN text
    ELSE IF text[1] = " " THEN trim(Tail(text))
    ELSE IF text[Len(text)] = " " THEN trim(SubSeq(text, 1, Len(text) - 1))
    ELSE text

\* parseFilters: the list is cleared, then every non-empty trimmed token
\* between commas is appended; it fails when the list stays empty
RECURSIVE FilterTokens(_, _, _)
FilterTokens(filtersStr, start, outFilters) ==
    IF start > Len(filtersStr)
    THEN outFilters
    ELSE LET end == FindComma(filtersStr, start)
             filter == trim(SubSeq(filtersStr, start, end - 1))
         IN FilterTokens(filtersStr, end + 1,
                         IF filter # <<>> THEN Append(outFilters, filter) ELSE outFilters)

parseFilters(filtersStr) ==
    LET outFilters == FilterTokens(filtersStr, 1, <<>>)
    IN [ok |-> outFilters # <<>>, filters |-> outFilters]

\* applyKeyValue: the record after the line and whether the line was applied
applyKeyValue(cfg, key, value) ==
    IF key = "trackmanager_recv_port"
    THEN LET r == parsePort(value, cfg.trackmanager_recv_port)
         IN [ok |-> r.ok, config |-> [cfg EXCEPT !.trackmanager_recv_port = r.port]]
    ELSE IF key = "trackmanager_recv_filters"
    THEN LET r == parseFilters(value)
         IN [ok |-> r.ok, config |-> [cfg EXCEPT !.trackmanager_recv_filters = r.filters]]
    ELSE [ok |-> FALSE, config |-> cfg]

\* the loop of reload over the lines from the i-th on
RECURSIVE ApplyLines(_, _, _, _)
ApplyLines(cfg, file, i, passed_items) ==
    IF i > Len(file)
    THEN [ok |-> TRUE, config |-> cfg, passed_items |-> passed_items]
    ELSE IF file[i].kind # "kv"
    THEN ApplyLines(cfg, file, i + 1, passed_items)
    ELSE LET r == applyKeyValue(cfg, file[i].key, trim(file[i].value))
         IN IF r.ok
            THEN ApplyLines(r.config, file, i + 1, passed_items + 1)
            ELSE [ok |-> FALSE, config |-> r.config, passed_items |-> passed_items]

\* a reload that keeps what the lines before a failure have written
reload_NoRollback(cfg, file) ==
    IF file = NoFile
    THEN [ret |-> FALSE, config |-> cfg]
    ELSE LET r == ApplyLines(cfg, file, 1, 0)
         IN [ret |-> r.ok /\ r.passed_items >= direct_read_count, config |-> r.config]

\* reload: the record after the call and what it returns
reload(cfg, file) ==
    IF file = NoFile
    THEN [ret |-> FALSE, config |-> cfg]
    ELSE LET old == cfg
             r == ApplyLines(cfg, file, 1, 0)
         IN IF ~r.ok
            THEN [ret |-> FALSE, config |-> old]
            ELSE IF r.passed_items < direct_read_count
                 THEN [ret |-> FALSE, config |-> old]
                 ELSE [ret |-> TRUE, config |-> r.config]

\* the records a TrackConfig holds when reload is called: the one before the
\* first load and the ones earlier loads have left
CommConfigFile ==
    <<KeyValue("trackmanager_recv_port", <<"7", "0">>),
      KeyValue("trackmanager_recv_filters", <<"P", ",", " ", "S">>),
      KeyValue("trackmanager_recv_port", <<"7", "0">>),
      KeyValue("trackmanager_recv_port", <<"7", "0">>)>>

LoadedConfigs ==
    {Config_init} \cup
    {reload(Config_init, file).config : file \in
        {<<KeyValue("trackmanager_recv_port", <<"7", "0">>),
           KeyValue("trackmanager_recv_filters", <<"P", ",", " ", "S">>),
           KeyValue("trackmanager_recv_port", <<"7", "0">>),
           KeyValue("trackmanager_recv_port", <<"7", "0">>)>>,
         <<KeyValue("trackmanager_recv_port", <<"7">>),
           KeyValue("trackmanager_recv_filters", <<"P", ",", " ", "S">>),
           KeyValue("trackmanager_recv_port", <<"7">>),
           KeyValue("trackmanager_recv_port", <<"7">>)>>}}

ConfigInit ==
    /\ tracker_manager_ = TrackerManager_init
    /\ last = [op |-> "init", ret |-> TRUE, id |-> 0]
    /\ run = NoRun
    /\ clock = 0
    /\ retired = {}
    /\ cleared = FALSE
    /\ twin = NoTwin
    /\ pushed = [id \in Ids |-> 0]
    /\ ServiceConstructed
    /\ facade = Facade_init
    /\ config \in LoadedConfigs
    /\ loaded = [file |-> NoFile, ret |-> FALSE, old |-> config, called |-> FALSE]
    /\ wire = <<>>
    /\ sent = [data |-> <<>>, ret |-> FALSE, called |-> FALSE, socket_valid |-> TRUE]
    /\ recv_buffer_ = <<>>
    /\ receiver = Receiver_init
    /\ rxlog = [chunks |-> <<>>, accepted |-> <<>>, taken |-> <<>>]
    /\ RingConstructed
    /\ ReceiveStarted

\* one call of reload, the constructor's or a later one
Reload(file) ==
    /\ ~loaded.called
    /\ LET r == reload(config, file)
       IN /\ config' = r.config
          /\ loaded' = [file |-> file, ret |-> r.ret, old |-> config, called |-> TRUE]
    /\ UNCHANGED <<storeVars, schedVars, facadeVars, commVars, ringVars, lifeVars>>

ConfigNext == \E file \in (IF loaded.called THEN {} ELSE ConfigFiles) : Reload(file)

ConfigSpec == ConfigInit /\ [][ConfigNext]_vars

(***************************************************************************)
(* The datagram transport: the wire format.  A datagram is the sequence of *)
(* its bytes; the header is read and written in place (packed, integers    *)
(* in the byte order of the host, least significant byte first).           *)
(***************************************************************************)
\* sizeof(header->packet_id)
PACKET_ID_SIZE == 128

\* sizeof(std::uint32_t), sizeof(IntFloatUnion)
WORD_SIZE == 4

\* sizeof(PacketHeader): the packet id and five 32-bit integers, packed
HEADER_SIZE == PACKET_ID_SIZE + 5 * WORD_SIZE

MAX_SEND_SIZE == 4096

MAX_RECV_SIZE == 4096

RECV_BUFFER_CAPACITY == 100

\* the code of a character
Ascii(ch) ==
    CASE ch = "_" -> 95 [] ch = "0" -> 48 [] ch = "1" -> 49 [] ch = "2" -> 50
      [] ch = "3" -> 51 [] ch = "4" -> 52 [] ch = "5" -> 53 [] ch = "6" -> 54
      [] ch = "7" -> 55 [] ch = "8" -> 56 [] ch = "9" -> 57 [] ch = "A" -> 65
      [] ch = "C" -> 67 [] ch = "D" -> 68 [] ch = "E" -> 69 [] ch = "G" -> 71
      [] ch = "K" -> 75 [] ch = "M" -> 77 [] ch = "N" -> 78 [] ch = "O" -> 79
      [] ch = "P" -> 80 [] ch = "R" -> 82 [] ch = "S" -> 83 [] ch = "T" -> 84
      [] OTHER -> 63

\* the bytes of a text
TextBytes(text) == [i \in 1 .. Len(text) |-> Ascii(text[i])]

TRACK_COMMAND_ID ==
    TextBytes(<<"T", "R", "A", "C", "K", "_", "M", "E", "R", "G", "E", "_",
                "C", "O", "M", "M", "A", "N", "D">>)

TRACK_PACKET_ID ==
    TextBytes(<<"T", "R", "A", "C", "K", "_", "P", "A", "C", "K", "E", "T">>)

\* std::to_string of a size
RECURSIVE to_string(_)
to_string(n) ==
    IF n < 10
    THEN <<48 + n>>
    ELSE Append(to_string(n \div 10), 48 + (n % 10))

\* the four bytes of a 32-bit integer in memory
U32Bytes(v) ==
    <<v % 256, (v \div 256) % 256, (v \div 65536) % 256, (v \div 16777216) % 256>>

\* the 32-bit integer read at a byte offset
U32At(bytes, offset) ==
    bytes[offset + 1] + 256 * bytes[offset + 2] + 65536 * bytes[offset + 3]
        + 16777216 * bytes[offset + 4]

\* a ^ b
RECURSIVE Xor(_, _)
Xor(a, b) ==
    IF a = 0 THEN b
    ELSE IF b = 0 THEN a
    ELSE (((a % 2) + (b % 2)) % 2) + 2 * Xor(a \div 2, b \div 2)

\* the loop "checksum ^= words[i]" over the words lo .. hi, taken in halves
RECURSIVE XorWords(_, _, _)
XorWords(bytes, lo, hi) ==
    IF lo > hi THEN 0
    ELSE IF lo = hi THEN U32At(bytes, WORD_SIZE * (lo - 1))
    ELSE LET mid == (lo + hi) \div 2
         IN Xor(XorWords(bytes, lo, mid), XorWords(bytes, mid + 1, hi))

\* calculateChecksum: the XOR of the whole words, then of a last word made of
\* the 1 to 3 bytes that remain
calculateChecksum(bytes, size) ==
    IF size = 0
    THEN 0
    ELSE LET word_count == size \div 4
             remaining == size % 4
             tail(k) == bytes[word_count * 4 + k + 1]
             last_word == (IF remaining >= 3 THEN tail(2) * 65536 ELSE 0)
                          + (IF remaining >= 2 THEN tail(1) * 256 ELSE 0)
                          + (IF remaining >= 1 THEN tail(0) ELSE 0)
         IN IF remaining > 0
            THEN Xor(XorWords(bytes, 1, word_count), last_word)
            ELSE XorWords(bytes, 1, word_count)

\* the header of a datagram: the packet id, zero-filled, and the five integers
PacketHeader(packet_id, total_fragments, fragment_index, total_size, fragment_size, checksum) ==
    [i \in 1 .. PACKET_ID_SIZE |-> IF i <= Len(packet_id) THEN packet_id[i] ELSE 0]
        \o U32Bytes(total_fragments) \o U32Bytes(fragment_index) \o U32Bytes(total_size)
        \o U32Bytes(fragment_size) \o U32Bytes(checksum)

\* the fields of the header at the front of a datagram
header_packet_id(dgram) == SubSeq(dgram, 1, PACKET_ID_SIZE)

header_total_fragments(dgram) == U32At(dgram, PACKET_ID_SIZE)

header_fragment_index(dgram) == U32At(dgram, PACKET_ID_SIZE + 4)

header_total_size(dgram) == U32At(dgram, PACKET_ID_SIZE + 8)

header_fragment_size(dgram) == U32At(dgram, PACKET_ID_SIZE + 12)

header_checksum(dgram) == U32At(dgram, PACKET_ID_SIZE + 16)

\* the bytes after the header
Payload(dgram) == SubSeq(dgram, HEADER_SIZE + 1, Len(dgram))

(***************************************************************************)
(* The datagram transport: sending.                                        *)
(***************************************************************************)
\* the memory of a vector of words
RawData(data) ==
    [j \in 1 .. WORD_SIZE * Len(data) |-> U32Bytes(data[((j - 1) \div WORD_SIZE) + 1])[((j - 1) % WORD_SIZE) + 1]]

\* the datagram of one fragment
Fragment(raw_data, fragment_index, total_fragments) ==
    LET max_payload == MAX_SEND_SIZE - HEADER_SIZE
        total_data_size == Len(raw_data)
        offset == fragment_index * max_payload
        fragment_size == IF max_payload < total_data_size - offset
                         THEN max_payload ELSE total_data_size - offset
        slice == SubSeq(raw_data, offset + 1, offset + fragment_size)
        packet_id == TRACK_PACKET_ID \o <<95>> \o to_string(fragment_index)
                         \o <<95>> \o to_string(total_fragments)
        copy_len == IF Len(packet_id) < PACKET_ID_SIZE - 1
                    THEN Len(packet_id) ELSE PACKET_ID_SIZE - 1
    IN PacketHeader(SubSeq(packet_id, 1, copy_len), total_fragments, fragment_index,
                    total_data_size, fragment_size,
                    calculateChecksum(slice, fragment_size)) \o slice

\* the loop of sendData from one fragment on: sendTo fails at fragment
\* failed, at none if failed = total_fragments
RECURSIVE SendFragments(_, _, _, _, _)
SendFragments(raw_data, fragment_index, total_fragments, failed, out) ==
    IF fragment_index >= total_fragments
    THEN [ret |-> TRUE, wire |-> out]
    ELSE IF fragment_index = failed
    THEN [ret |-> FALSE, wire |-> out]
    ELSE SendFragments(raw_data, fragment_index + 1, total_fragments, failed,
                       Append(out, Fragment(raw_data, fragment_index, total_fragments)))

\* a fragment count that leaves out the last, shorter fragment
TotalFragments_Floor(total_data_size) ==
    total_data_size \div (MAX_SEND_SIZE - HEADER_SIZE)

\* ceil(total_data_size / max_payload) as sendData computes it
TotalFragments(total_data_size) ==
    LET max_payload == MAX_SEND_SIZE - HEADER_SIZE
    IN (total_data_size + max_payload - 1) \div max_payload

\* sendData: what it returns and the datagrams it has handed to the network
sendData(data, socket_valid, failed) ==
    LET total_data_size == Len(data) * WORD_SIZE
    IN IF data = <<>> \/ ~socket_valid \/ total_data_size > 1024 * 1024 * 1024
       THEN [ret |-> FALSE, wire |-> <<>>]
       ELSE SendFragments(RawData(data), 0, TotalFragments(total_data_size), failed, <<>>)

\* number of different contents of the vectors given to sendData
MaxSeed == 4

\* a vector of n words
Words(n, seed) == [i \in 1 .. n |-> ((i * seed) % 5) * 16777216 + ((i + seed) % 3) * 65536 + (i % 251)]

\* the lengths of the vectors given to sendData: around one, two and three
\* fragments
SendWordCounts == {0, 1, 2, 986, 987, 988, 1973, 1974, 1975, 2000}

SendInit ==
    /\ tracker_manager_ = TrackerManager_init
    /\ last = [op |-> "init", ret |-> TRUE, id |-> 0]
    /\ run = NoRun
    /\ clock = 0
    /\ retired = {}
    /\ cleared = FALSE
    /\ twin = NoTwin
    /\ pushed = [id \in Ids |-> 0]
    /\ ServiceConstructed
    /\ OthersConstructed

\* one call of sendData
SendData(data, socket_valid, failed) ==
    /\ ~sent.called
    /\ LET r == sendData(data, socket_valid, failed)
       IN /\ wire' = r.wire
          /\ sent' = [data |-> data, ret |-> r.ret, called |-> TRUE,
                      socket_valid |-> socket_valid]
    /\ UNCHANGED <<storeVars, schedVars, facadeVars, configVars, recvVars, ringVars, lifeVars>>

SendNext ==
    \E n \in (IF sent.called THEN {} ELSE SendWordCounts), seed \in 1 .. MaxSeed :
        \E socket_valid \in BOOLEAN, failed \in 0 .. TotalFragments(WORD_SIZE * n) :
            SendData(Words(n, seed), socket_valid, failed)

SendSpec == SendInit /\ [][SendNext]_vars

(***************************************************************************)
(* The datagram transport: receiving.                                      *)
(***************************************************************************)
\* the position of the first occurrence of a text in a text, 0 if there is
\* none (std::string::find)
Find(text, what) ==
    LET at == {i \in 1 .. (Len(text) - Len(what) + 1) : SubSeq(text, i, i + Len(what) - 1) = what}
    IN IF at = {} THEN 0 ELSE CHOOSE i \in at : \A j \in at : i <= j

\* the packet id validatePacket looks at: the 128 bytes up to the first zero
\* after the first byte that is not zero; no id if every byte is zero
ExtractPacketId(packet_id) ==
    LET non_null == {i \in 1 .. Len(packet_id) : packet_id[i] # 0}
        first_non_null == CHOOSE i \in non_null : \A j \in non_null : i <= j
        nulls == {i \in first_non_null .. Len(packet_id) : packet_id[i] = 0}
    IN IF non_null = {} THEN <<>>
       ELSE IF nulls = {} THEN packet_id
       ELSE SubSeq(packet_id, 1, (CHOOSE i \in nulls : \A j \in nulls : i <= j) - 1)

\* the words held by a sequence of bytes
WordsOf(bytes) == [i \in 1 .. (Len(bytes) \div WORD_SIZE) |-> U32At(bytes, WORD_SIZE * (i - 1))]

\* validatePacket
validatePacket(dgram, data_size) ==
    LET packet_id == ExtractPacketId(header_packet_id(dgram))
    IN /\ data_size <= MAX_RECV_SIZE
       /\ packet_id # <<>>
       /\ Find(packet_id, TRACK_COMMAND_ID) # 0
       /\ header_checksum(dgram) = calculateChecksum(Payload(dgram), data_size)
       /\ header_fragment_size(dgram) = data_size
       /\ header_fragment_index(dgram) < header_total_fragments(dgram)

\* what the receive loop does with a datagram before it takes the lock
Screen(dgram) ==
    IF Len(dgram) < HEADER_SIZE THEN "short"
    ELSE IF ~validatePacket(dgram, Len(dgram) - HEADER_SIZE) THEN "invalid"
    ELSE IF (Len(dgram) - HEADER_SIZE) % WORD_SIZE # 0 THEN "unaligned"
    ELSE "validated"

\* a capacity check that lets every datagram in
Overflows_Never(size, uint32_count) == FALSE

\* the capacity check of the receive loop
Overflows(size, uint32_count) == size + uint32_count > RECV_BUFFER_CAPACITY

\* a read that leaves the words in the buffer
AfterRead_Kept(buffer) == buffer

\* the buffer after readReceivedData has swapped it with an empty vector
AfterRead(buffer) == <<>>

\* number of datagrams that arrive, number of calls of readReceivedData
MaxDatagrams == 2

MaxReads == 2

\* the threads that call readReceivedData
Consumers == {"c1", "c2"}

\* a datagram with a packet id of the receiver's kind
CommandDatagram(words, total_fragments, fragment_index) ==
    PacketHeader(TRACK_COMMAND_ID, total_fragments, fragment_index,
                 WORD_SIZE * Len(words), WORD_SIZE * Len(words),
                 calculateChecksum(RawData(words), WORD_SIZE * Len(words))) \o RawData(words)

\* the datagrams the receiver accepts while there is room
AcceptableDatagrams ==
    {CommandDatagram(Words(1, 1), 2, 0), CommandDatagram(Words(50, 2), 1, 0),
     CommandDatagram(Words(99, 3), 3, 2), CommandDatagram(<<>>, 1, 0)}

\* a byte with its lowest bit changed
Flip(byte) == IF byte % 2 = 0 THEN byte + 1 ELSE byte - 1

\* a datagram with one byte altered
Alter(dgram, at) == [dgram EXCEPT ![at] = Flip(dgram[at])]

\* the datagram whose alterations arrive
BaseDatagram == CommandDatagram(Words(1, 1), 2, 0)

\* the bytes that are altered: every byte of the integers and of the payload,
\* and of the packet id its text, the first two and the last two of the zero
\* bytes that fill it
AlteredAt ==
    {at \in 1 .. Len(BaseDatagram) :
        at <= Len(TRACK_COMMAND_ID) + 2 \/ at >= PACKET_ID_SIZE - 1}

AlteredDatagrams == {Alter(BaseDatagram, at) : at \in AlteredAt}

\* datagrams that fail one check each: too short, a payload that is not whole
\* words, a packet id of the sender's kind, an index past the total, a size
\* and a checksum that are not the payload's
FailingDatagrams ==
    {<<1, 2, 3>>,
     SubSeq(BaseDatagram, 1, HEADER_SIZE - 1),
     PacketHeader(TRACK_COMMAND_ID, 1, 0, 6, 6, calculateChecksum(<<1, 2, 3, 4, 5, 6>>, 6))
         \o <<1, 2, 3, 4, 5, 6>>,
     Fragment(RawData(Words(1, 1)), 0, 1),
     CommandDatagram(Words(1, 1), 1, 1),
     PacketHeader(TRACK_COMMAND_ID, 1, 0, 4, 8, calculateChecksum(RawData(Words(1, 1)), 4))
         \o RawData(Words(1, 1)),
     PacketHeader(TRACK_COMMAND_ID, 1, 0, 4, 4, 0) \o RawData(Words(1, 1))}

\* the datagrams that arrive
Datagrams == AcceptableDatagrams \cup FailingDatagrams \cup AlteredDatagrams

RecvInit ==
    /\ tracker_manager_ = TrackerManager_init
    /\ last = [op |-> "init", ret |-> TRUE, id |-> 0]
    /\ run = NoRun
    /\ clock = 0
    /\ retired = {}
    /\ cleared = FALSE
    /\ twin = NoTwin
    /\ pushed = [id \in Ids |-> 0]
    /\ ServiceConstructed
    /\ facade = Facade_init
    /\ config = reload(Config_init, CommConfigFile).config
    /\ loaded = [file |-> CommConfigFile, ret |-> TRUE, old |-> Config_init, called |-> TRUE]
    /\ wire = <<>>
    /\ sent = [data |-> <<>>, ret |-> FALSE, called |-> FALSE, socket_valid |-> TRUE]
    /\ recv_buffer_ = <<>>
    /\ receiver = Receiver_init
    /\ rxlog = [chunks |-> <<>>, accepted |-> <<>>, taken |-> <<>>]
    /\ RingConstructed
    /\ ReceiveStarted

\* the receive loop reads a datagram and screens it; a datagram that passes
\* is kept for the append
ReceiveDatagram(dgram) ==
    /\ receiver.pc = "recv"
    /\ receiver.count < MaxDatagrams
    /\ receiver' = [pc |-> IF Screen(dgram) = "validated" THEN "append" ELSE "recv",
                    dgram |-> dgram, outcome |-> Screen(dgram),
                    count |-> receiver.count + 1]
    /\ UNCHANGED <<recv_buffer_, rxlog>>
    /\ UNCHANGED <<storeVars, schedVars, facadeVars, configVars, sendVars, ringVars, lifeVars>>

\* the receive loop, holding recv_mutex_, appends the words of the datagram
\* unless they do not fit
AppendWords ==
    /\ receiver.pc = "append"
    /\ LET words == WordsOf(Payload(receiver.dgram))
       IN IF Overflows(Len(recv_buffer_), Len(words))
          THEN /\ receiver' = [receiver EXCEPT !.pc = "recv", !.outcome = "full"]
               /\ UNCHANGED <<recv_buffer_, rxlog>>
          ELSE /\ recv_buffer_' = recv_buffer_ \o words
               /\ receiver' = [receiver EXCEPT !.pc = "recv", !.outcome = "appended"]
               /\ rxlog' = [rxlog EXCEPT !.chunks = Append(@, words),
                                          !.accepted = Append(@, words)]
    /\ UNCHANGED <<storeVars, schedVars, facadeVars, configVars, sendVars, ringVars, lifeVars>>

\* readReceivedData, holding recv_mutex_, swaps the buffer with an empty
\* vector and returns it
ReadReceivedData(c) ==
    /\ Len(rxlog.taken) < MaxReads
    /\ recv_buffer_' = AfterRead(recv_buffer_)
    /\ rxlog' = [rxlog EXCEPT !.chunks = <<>>,
                               !.taken = Append(@, [result |-> recv_buffer_,
                                                    chunks |-> rxlog.chunks])]
    /\ UNCHANGED receiver
    /\ UNCHANGED <<storeVars, schedVars, facadeVars, configVars, sendVars, ringVars, lifeVars>>

RecvNext ==
    \/ \E dgram \in (IF receiver.pc = "recv" /\ receiver.count < MaxDatagrams
                      THEN Datagrams ELSE {}) : ReceiveDatagram(dgram)
    \/ AppendWords
    \/ \E c \in Consumers : ReadReceivedData(c)

RecvSpec == RecvInit /\ [][RecvNext]_vars

(***************************************************************************)
(* One CREATE command executed on stores with different numbers of free    *)
(* slots.                                                                  *)
(***************************************************************************)
\* the points of one array of a CREATE payload
ArrayPoints == 4

\* largest number of arrays in one payload
MaxArrays == 2

\* the four points of the a-th array of a payload; flags gives is_associated
CreateArray(a, flags) == [k \in 1 .. ArrayPoints |-> TrackPoint(10 * a + k, flags[k])]

FlagPatterns == [1 .. ArrayPoints -> BOOLEAN]

CreatePayloads ==
    UNION {{[a \in 1 .. n |-> CreateArray(a, pattern[a])] :
               pattern \in [1 .. n -> FlagPatterns]} : n \in 0 .. MaxArrays}

\* a fresh store, a store with one live track and a store with two
CreateStores ==
    {TrackerManager_init, deleteTrack(TwoTracks(2, 0), 2).tm, TwoTracks(1, 2)}

\* the payload is staged in create_buffer_ and its command not yet executed
CreateInit ==
    /\ tracker_manager_ \in CreateStores
    /\ create_buffer_ \in CreatePayloads
    /\ pushed = [id \in Ids |-> 0]
    /\ last = [op |-> "init", ret |-> TRUE, id |-> 0]
    /\ run = NoRun
    /\ clock = 0
    /\ retired = {}
    /\ cleared = FALSE
    /\ twin = NoTwin
    /\ command_queue_ = <<>>
    /\ add_buffer_ = <<>>
    /\ draw_buffer_ = <<>>
    /\ stop_flag_ = FALSE
    /\ queue_mutex_ = "none"
    /\ buffer_mutex_ = "none"
    /\ worker = Worker_init
    /\ producer = [p \in Producers |-> Producer_init]
    /\ owner = "alive"
    /\ enqueued = 0
    /\ OthersConstructed

\* the worker executes the CREATE command
ExecuteCreate ==
    /\ last.op = "init"
    /\ tracker_manager_' = process_create(tracker_manager_, create_buffer_, 1)
    /\ last' = [op |-> "process_create", ret |-> TRUE, id |-> 0]
    /\ UNCHANGED <<run, clock, pushed, retired, cleared, twin>>
    /\ UNCHANGED <<schedVars, otherVars>>

CreateNext == ExecuteCreate

CreateSpec == CreateInit /\ [][CreateNext]_vars

(***************************************************************************)
(* A LatestKBuffer used on its own (the unit tests' use of it).            *)
(***************************************************************************)
\* number of calls on the buffer in one behaviour
MaxRingOps == 7

\* the items a caller pushes
RingItems == {TrackPoint(1, TRUE), TrackPoint(2, FALSE)}

RingInit ==
    /\ tracker_manager_ = TrackerManager_init
    /\ last = [op |-> "init", ret |-> TRUE, id |-> 0]
    /\ run = NoRun
    /\ clock = 0
    /\ retired = {}
    /\ cleared = FALSE
    /\ twin = NoTwin
    /\ pushed = [id \in Ids |-> 0]
    /\ ServiceConstructed
    /\ OthersConstructed

\* push(item); pushed keeps the items pushed since the constructor or the last
\* clear
RingPush(item) ==
    /\ ring.ops < MaxRingOps
    /\ ring' = [ring EXCEPT !.buf = Buffer_push(ring.buf, item),
                            !.pushed = Append(@, item),
                            !.ops = @ + 1]
    /\ UNCHANGED <<storeVars, schedVars, facadeVars, configVars, commVars, lifeVars>>

\* clear()
RingClear ==
    /\ ring.ops < MaxRingOps
    /\ ring' = [ring EXCEPT !.buf = Buffer_clear(ring.buf),
                            !.pushed = <<>>,
                            !.cleared = TRUE,
                            !.ops = @ + 1]
    /\ UNCHANGED <<storeVars, schedVars, facadeVars, configVars, commVars, lifeVars>>

RingNext ==
    \/ \E item \in RingItems : RingPush(item)
    \/ RingClear

RingSpec == RingInit /\ [][RingNext]_vars

(***************************************************************************)
(* TrackerComm: the receive thread, reload and the destructor.             *)
(***************************************************************************)
LifeInit ==
    /\ tracker_manager_ = TrackerManager_init
    /\ last = [op |-> "init", ret |-> TRUE, id |-> 0]
    /\ run = NoRun
    /\ clock = 0
    /\ retired = {}
    /\ cleared = FALSE
    /\ twin = NoTwin
    /\ pushed = [id \in Ids |-> 0]
    /\ ServiceConstructed
    /\ OthersConstructed

\* calls of reload made so far
RECURSIVE ReloadCalls(_)
ReloadCalls(cs) ==
    IF cs = {}
    THEN 0
    ELSE LET c == CHOOSE x \in cs : TRUE
         IN caller[c].calls + ReloadCalls(cs \ {c})

\* the object exists and the process runs
Alive == ~crashed /\ \A c \in Callers : caller[c].ret # "destroyed"

\* the receive threads that have not returned from receiveLoop
Running == {t \in ThreadIds : rxthread[t] \in {"test", "recv", "exit"}}

\* a thread enters reload(filepath)
BeginReload(c) ==
    /\ Alive
    /\ caller[c].pc = "idle"
    /\ ReloadCalls(Callers) < MaxReloads
    /\ \A d \in Callers : caller[d].op # "destroy"
    /\ caller' = [caller EXCEPT ![c] = [pc |-> "stop_flag", op |-> "reload", target |-> 0,
                                        ret |-> "none", calls |-> @.calls + 1]]
    /\ UNCHANGED <<is_receiving_, should_stop_, thread_stopped_, recv_thread_, rxthread, crashed>>
    /\ UNCHANGED <<storeVars, schedVars, facadeVars, configVars, commVars, ringVars>>

\* the owner of the object destroys it when no other thread is inside a call
BeginDestroy(c) ==
    /\ Alive
    /\ \A d \in Callers : caller[d].pc = "idle" /\ caller[d].op # "destroy"
    /\ caller' = [caller EXCEPT ![c] = [@ EXCEPT !.pc = "stop_flag", !.op = "destroy",
                                                 !.target = 0, !.ret = "none"]]
    /\ UNCHANGED <<is_receiving_, should_stop_, thread_stopped_, recv_thread_, rxthread, crashed>>
    /\ UNCHANGED <<storeVars, schedVars, facadeVars, configVars, commVars, ringVars>>

\* stopReceiveData: should_stop_.store(true)
StopFlag(c) ==
    /\ Alive
    /\ caller[c].pc = "stop_flag"
    /\ should_stop_' = TRUE
    /\ caller' = [caller EXCEPT ![c].pc = "stop_mark"]
    /\ UNCHANGED <<is_receiving_, thread_stopped_, recv_thread_, rxthread, crashed>>
    /\ UNCHANGED <<storeVars, schedVars, facadeVars, configVars, commVars, ringVars>>

\* stopReceiveData: thread_stopped_ = false under thread_stop_mutex_
StopMark(c) ==
    /\ Alive
    /\ caller[c].pc = "stop_mark"
    /\ thread_stopped_' = FALSE
    /\ caller' = [caller EXCEPT ![c].pc = "stop_clear"]
    /\ UNCHANGED <<is_receiving_, should_stop_, recv_thread_, rxthread, crashed>>
    /\ UNCHANGED <<storeVars, schedVars, facadeVars, configVars, commVars, ringVars>>

\* stopReceiveData: recv_buffer_.clear() under recv_mutex_
StopClear(c) ==
    /\ Alive
    /\ caller[c].pc = "stop_clear"
    /\ recv_buffer_' = <<>>
    /\ caller' = [caller EXCEPT ![c].pc = "stop_join"]
    /\ UNCHANGED <<is_receiving_, should_stop_, thread_stopped_, recv_thread_, rxthread, crashed>>
    /\ UNCHANGED <<storeVars, schedVars, facadeVars, configVars, sendVars, receiver, rxlog,
                   ringVars>>

\* stopReceiveData: the test of recv_thread_.joinable() and the entry into join()
StopJoin(c) ==
    /\ Alive
    /\ caller[c].pc = "stop_join"
    /\ caller' = [caller EXCEPT ![c] =
                     IF recv_thread_ # 0
                     THEN [@ EXCEPT !.pc = "joining", !.target = recv_thread_]
                     ELSE [@ EXCEPT !.pc = "stop_done"]]
    /\ UNCHANGED <<is_receiving_, should_stop_, thread_stopped_, recv_thread_, rxthread, crashed>>
    /\ UNCHANGED <<storeVars, schedVars, facadeVars, configVars, commVars, ringVars>>

\* join() returns once the thread has returned from receiveLoop, and the handle
\* is no longer joinable.  When another caller has joined or replaced the handle
\* in the meantime the two calls raced on recv_thread_ (no lock guards it): the
\* call returns, leaving the handle as it is or empty, or join throws and the
\* process is terminated
Joined(c) ==
    /\ Alive
    /\ caller[c].pc = "joining"
    /\ rxthread[caller[c].target] = "done"
    /\ \/ /\ recv_thread_ = caller[c].target
          /\ recv_thread_' = 0
          /\ caller' = [caller EXCEPT ![c].pc = "stop_done"]
          /\ UNCHANGED crashed
       \/ /\ recv_thread_ # caller[c].target
          /\ \/ /\ recv_thread_' \in {recv_thread_, 0}
                /\ caller' = [caller EXCEPT ![c].pc = "stop_done"]
                /\ UNCHANGED crashed
             \/ /\ crashed' = TRUE
                /\ UNCHANGED <<recv_thread_, caller>>
    /\ UNCHANGED <<is_receiving_, should_stop_, thread_stopped_, rxthread>>
    /\ UNCHANGED <<storeVars, schedVars, facadeVars, configVars, commVars, ringVars>>

\* stopReceiveData: is_receiving_.store(false); the destructor ends here and
\* reload goes on to waitForThreadStop
StopDone(c) ==
    /\ Alive
    /\ caller[c].pc = "stop_done"
    /\ is_receiving_' = FALSE
    /\ caller' = [caller EXCEPT ![c] =
                     IF caller[c].op = "destroy"
                     THEN [@ EXCEPT !.pc = "idle", !.ret = "destroyed"]
                     ELSE [@ EXCEPT !.pc = "wait"]]
    /\ UNCHANGED <<should_stop_, thread_stopped_, recv_thread_, rxthread, crashed>>
    /\ UNCHANGED <<storeVars, schedVars, facadeVars, configVars, commVars, ringVars>>

\* waitForThreadStop(2000) finds thread_stopped_ set
WaitStopped(c) ==
    /\ Alive
    /\ caller[c].pc = "wait"
    /\ thread_stopped_
    /\ caller' = [caller EXCEPT ![c].pc = "reconfig"]
    /\ UNCHANGED <<is_receiving_, should_stop_, thread_stopped_, recv_thread_, rxthread, crashed>>
    /\ UNCHANGED <<storeVars, schedVars, facadeVars, configVars, commVars, ringVars>>

\* waitForThreadStop(2000) times out with thread_stopped_ still false and
\* reload returns at once
WaitTimeout(c) ==
    /\ Alive
    /\ caller[c].pc = "wait"
    /\ ~thread_stopped_
    /\ caller' = [caller EXCEPT ![c] = [@ EXCEPT !.pc = "idle", !.ret = "timeout"]]
    /\ UNCHANGED <<is_receiving_, should_stop_, thread_stopped_, recv_thread_, rxthread, crashed>>
    /\ UNCHANGED <<storeVars, schedVars, facadeVars, configVars, commVars, ringVars>>

\* reload: config_.reload(filepath)
Reconfigure(c) ==
    /\ Alive
    /\ caller[c].pc = "reconfig"
    /\ config' = reload(config, CommConfigFile).config
    /\ caller' = [caller EXCEPT ![c].pc = "clear"]
    /\ UNCHANGED loaded
    /\ UNCHANGED <<is_receiving_, should_stop_, thread_stopped_, recv_thread_, rxthread, crashed>>
    /\ UNCHANGED <<storeVars, schedVars, facadeVars, commVars, ringVars>>

\* reload: recv_buffer_.clear() under recv_mutex_, then the new receive socket
ClearBuffer(c) ==
    /\ Alive
    /\ caller[c].pc = "clear"
    /\ recv_buffer_' = <<>>
    /\ caller' = [caller EXCEPT ![c].pc = "start_check"]
    /\ UNCHANGED <<is_receiving_, should_stop_, thread_stopped_, recv_thread_, rxthread, crashed>>
    /\ UNCHANGED <<storeVars, schedVars, facadeVars, configVars, sendVars, receiver, rxlog,
                   ringVars>>

\* startReceiveData: returns at once when is_receiving_ is set
StartCheck(c) ==
    /\ Alive
    /\ caller[c].pc = "start_check"
    /\ caller' = [caller EXCEPT ![c] =
                     IF is_receiving_
                     THEN [@ EXCEPT !.pc = "idle", !.ret = "done"]
                     ELSE [@ EXCEPT !.pc = "start_reset"]]
    /\ UNCHANGED <<is_receiving_, should_stop_, thread_stopped_, recv_thread_, rxthread, crashed>>
    /\ UNCHANGED <<storeVars, schedVars, facadeVars, configVars, commVars, ringVars>>

\* startReceiveData: should_stop_.store(false)
StartReset(c) ==
    /\ Alive
    /\ caller[c].pc = "start_reset"
    /\ should_stop_' = FALSE
    /\ caller' = [caller EXCEPT ![c].pc = "start_mark"]
    /\ UNCHANGED <<is_receiving_, thread_stopped_, recv_thread_, rxthread, crashed>>
    /\ UNCHANGED <<storeVars, schedVars, facadeVars, configVars, commVars, ringVars>>

\* startReceiveData: thread_stopped_ = false under thread_stop_mutex_
StartMark(c) ==
    /\ Alive
    /\ caller[c].pc = "start_mark"
    /\ thread_stopped_' = FALSE
    /\ caller' = [caller EXCEPT ![c].pc = "start_spawn"]
    /\ UNCHANGED <<is_receiving_, should_stop_, recv_thread_, rxthread, crashed>>
    /\ UNCHANGED <<storeVars, schedVars, facadeVars, configVars, commVars, ringVars>>

\* startReceiveData: recv_thread_ = std::thread(&TrackerComm::receiveLoop, this);
\* the new thread runs from here on, and the move assignment to a handle that
\* is still joinable calls std::terminate
StartSpawn(c) ==
    /\ Alive
    /\ caller[c].pc = "start_spawn"
    /\ LET t == CHOOSE x \in ThreadIds :
                   rxthread[x] = "unborn" /\ \A y \in 1 .. (x - 1) : rxthread[y] # "unborn"
       IN /\ rxthread' = [rxthread EXCEPT ![t] = "test"]
          /\ IF recv_thread_ # 0
             THEN /\ crashed' = TRUE
                  /\ UNCHANGED <<recv_thread_, caller>>
             ELSE /\ recv_thread_' = t
                  /\ caller' = [caller EXCEPT ![c].pc = "start_flag"]
                  /\ UNCHANGED crashed
    /\ UNCHANGED <<is_receiving_, should_stop_, thread_stopped_>>
    /\ UNCHANGED <<storeVars, schedVars, facadeVars, configVars, commVars, ringVars>>

\* startReceiveData: is_receiving_.store(true), and reload returns
StartFlag(c) ==
    /\ Alive
    /\ caller[c].pc = "start_flag"
    /\ is_receiving_' = TRUE
    /\ caller' = [caller EXCEPT ![c] = [@ EXCEPT !.pc = "idle", !.ret = "done"]]
    /\ UNCHANGED <<should_stop_, thread_stopped_, recv_thread_, rxthread, crashed>>
    /\ UNCHANGED <<storeVars, schedVars, facadeVars, configVars, commVars, ringVars>>

\* receiveLoop: the test of should_stop_ at the top of the loop; the socket is
\* valid, so the thread goes on to recvfrom
ThreadTest(t) ==
    /\ ~crashed
    /\ rxthread[t] = "test"
    /\ rxthread' = [rxthread EXCEPT ![t] = IF should_stop_ THEN "exit" ELSE "recv"]
    /\ UNCHANGED <<is_receiving_, should_stop_, thread_stopped_, recv_thread_, caller, crashed>>
    /\ UNCHANGED <<storeVars, schedVars, facadeVars, configVars, commVars, ringVars>>

\* receiveLoop: recvfrom on the blocking socket returns when a datagram has
\* arrived; the datagram is dropped or its word (here the number of the thread)
\* appended, and the loop starts over
Deliver(t, accepted) ==
    /\ ~crashed
    /\ rxthread[t] = "recv"
    /\ receiver.count < MaxDatagrams
    /\ receiver' = [receiver EXCEPT !.count = @ + 1]
    /\ recv_buffer_' = IF accepted THEN Append(recv_buffer_, t) ELSE recv_buffer_
    /\ rxthread' = [rxthread EXCEPT ![t] = "test"]
    /\ UNCHANGED <<is_receiving_, should_stop_, thread_stopped_, recv_thread_, caller, crashed>>
    /\ UNCHANGED <<storeVars, schedVars, facadeVars, configVars, sendVars, rxlog, ringVars>>

\* receiveLoop: the exit sequence under thread_stop_mutex_, then the return
ThreadExit(t) ==
    /\ ~crashed
    /\ rxthread[t] = "exit"
    /\ thread_stopped_' = TRUE
    /\ is_receiving_' = FALSE
    /\ rxthread' = [rxthread EXCEPT ![t] = "done"]
    /\ UNCHANGED <<should_stop_, recv_thread_, caller, crashed>>
    /\ UNCHANGED <<storeVars, schedVars, facadeVars, configVars, commVars, ringVars>>

\* the steps of a caller that is inside a call
CallerStep(c) ==
    \/ StopFlag(c)
    \/ StopMark(c)
    \/ StopClear(c)
    \/ StopJoin(c)
    \/ Joined(c)
    \/ StopDone(c)
    \/ WaitStopped(c)
    \/ WaitTimeout(c)
    \/ Reconfigure(c)
    \/ ClearBuffer(c)
    \/ StartCheck(c)
    \/ StartReset(c)
    \/ StartMark(c)
    \/ StartSpawn(c)
    \/ StartFlag(c)

\* the steps a receive thread takes without a datagram
LoopStep(t) ==
    \/ ThreadTest(t)
    \/ ThreadExit(t)

LifeNext ==
    \/ \E c \in Callers : BeginReload(c)
    \/ \E c \in Callers : BeginDestroy(c)
    \/ \E c \in Callers : CallerStep(c)
    \/ \E t \in ThreadIds : LoopStep(t)
    \/ \E t \in ThreadIds, accepted \in BOOLEAN : Deliver(t, accepted)

LifeSpec == LifeInit /\ [][LifeNext]_vars

\* every thread that can take a step takes one in the end; no datagram has to
\* arrive and nobody has to call
LifeFairSpec ==
    /\ LifeInit
    /\ [][LifeNext]_vars
    /\ \A c \in Callers : WF_vars(CallerStep(c))
    /\ \A t \in ThreadIds : WF_vars(LoopStep(t))

(***************************************************************************)
(* Properties of the store.                                                *)
(***************************************************************************)
\* the header and the retained points an id resolves to
HeaderOf(tm, track_id) == TrackOf(tm, track_id).header

ElemsOf(tm, track_id) == Buffer_elems(TrackOf(tm, track_id).data)

\* C3: every pool slot is either in the free-slot list or referenced by exactly
\* one id of the id-to-slot map (never both, never neither, never by two ids).
C3_SlotFreeOrOwnedOnce ==
    \A s \in Slots :
        \/ s \in FreeSet(tracker_manager_) /\ Owners(tracker_manager_, s) = {}
        \/ s \notin FreeSet(tracker_manager_) /\ Cardinality(Owners(tracker_manager_, s)) = 1

\* C4: every id of the id-to-slot map points to a slot whose header carries
\* that same track id.
C4_MapMatchesHeader ==
    \A id \in DOMAIN tracker_manager_.track_id_to_pool_index_ :
        HeaderOf(tracker_manager_, id).track_id = id

\* C5: after a successful merge_tracks(source, target) of two tracks the target
\* id is still valid, the source id is not, and the surviving buffer is the
\* target's earlier points followed by the source's last 3 points.
C5_MergeSurvivesAsTarget ==
    [][\A s \in Ids, t \in Ids :
          (s # t /\ MergeTracks(s, t) /\ last'.ret)
          => /\ isValidTrack(tracker_manager_', t)
             /\ ~isValidTrack(tracker_manager_', s)
             /\ ElemsOf(tracker_manager_', t) =
                   SubSeq(ElemsOf(tracker_manager_, t), 1,
                          Len(ElemsOf(tracker_manager_, t)) - MAX_EXTRAPOLATION_TIMES)
                   \o LastN(ElemsOf(tracker_manager_, s), MAX_EXTRAPOLATION_TIMES)]_vars

\* C6: after a successful merge_tracks(s, t) of two tracks t is invalid, s is
\* valid, and the last 3 elements of the buffer reached through s are the last 3
\* elements the source held before the call.
C6_MergeSurvivesAsSource ==
    [][\A s \in Ids, t \in Ids :
          (s # t /\ MergeTracks(s, t) /\ last'.ret)
          => /\ ~isValidTrack(tracker_manager_', t)
             /\ isValidTrack(tracker_manager_', s)
             /\ Len(ElemsOf(tracker_manager_', s)) >= MAX_EXTRAPOLATION_TIMES
             /\ LastN(ElemsOf(tracker_manager_', s), MAX_EXTRAPOLATION_TIMES) =
                   LastN(ElemsOf(tracker_manager_, s), MAX_EXTRAPOLATION_TIMES)]_vars

\* the first 3 unassociated pushes of a run succeed and leave the track
\* EXTRAPOLATED with counter 1, 2, 3
RunExtrapolates ==
    run.n \in 1 .. MAX_EXTRAPOLATION_TIMES
    => /\ last.ret = TRUE
       /\ isValidTrack(tracker_manager_, run.id)
       /\ HeaderOf(tracker_manager_, run.id).state = 1
       /\ HeaderOf(tracker_manager_, run.id).extrapolation_count = run.n

\* C7 as claimed: on a live track with counter 0 the first 3 unassociated pushes
\* succeed (EXTRAPOLATED, counter 1, 2, 3) and the 4th returns failure with the
\* id no longer valid.
C7_FourthPushFails ==
    /\ RunExtrapolates
    /\ run.n = MAX_EXTRAPOLATION_TIMES + 1
       => last.ret = FALSE /\ ~isValidTrack(tracker_manager_, run.id)

\* C7 as amended: the first 3 unassociated pushes succeed (EXTRAPOLATED, counter
\* 1, 2, 3), the 4th succeeds too and leaves the track live in state TERMINATED
\* with counter 3, and the 5th returns failure and removes the id that the slot's
\* header carries.
C7_FifthPushFails ==
    /\ RunExtrapolates
    /\ run.n = MAX_EXTRAPOLATION_TIMES + 1
       => /\ last.ret = TRUE
          /\ isValidTrack(tracker_manager_, run.id)
          /\ HeaderOf(tracker_manager_, run.id).state = 2
          /\ HeaderOf(tracker_manager_, run.id).extrapolation_count = MAX_EXTRAPOLATION_TIMES
    /\ run.n = MAX_EXTRAPOLATION_TIMES + 2
       => /\ last.ret = FALSE
          /\ ~isValidTrack(tracker_manager_, run.hid)

C7_Witness ==
    /\ run.n = MAX_EXTRAPOLATION_TIMES + 2
    /\ run.hid = run.id
    /\ last = [op |-> "push", ret |-> FALSE, id |-> 0]

\* C8: on a freshly created track 4 consecutive unassociated pushes return true;
\* the next one returns false, removes the track and lowers the used count by
\* exactly one.
C8_FreshTrackFivePushes ==
    run.fresh
    => /\ run.n \in 1 .. (MAX_EXTRAPOLATION_TIMES + 1)
          => last.ret = TRUE /\ isValidTrack(tracker_manager_, run.id)
       /\ run.n = MAX_EXTRAPOLATION_TIMES + 2
          => /\ last.ret = FALSE
             /\ ~isValidTrack(tracker_manager_, run.id)
             /\ getUsedCount(tracker_manager_) = run.used - 1

C8_Witness ==
    /\ run.fresh
    /\ run.n = MAX_EXTRAPOLATION_TIMES + 2
    /\ getUsedCount(tracker_manager_) = run.used - 1

\* C9 as claimed: no call returns leaving a live track in state TERMINATED.
C9_NoLiveTerminated ==
    \A id \in DOMAIN tracker_manager_.track_id_to_pool_index_ :
        HeaderOf(tracker_manager_, id).state # 2

\* C9 as amended: a track is left live in state TERMINATED only by a successful
\* push_track_point of an unassociated point to its slot with the counter at 3;
\* the next push_track_point on it returns false, removes the id that the slot's
\* header carries and, when that id was live, clears and frees the slot.
C9_TerminatedUntilNextPush ==
    [][\A id \in Ids :
          /\ ( /\ isValidTrack(tracker_manager_', id)
               /\ HeaderOf(tracker_manager_', id).state = 2
               /\ ~( /\ isValidTrack(tracker_manager_, id)
                     /\ HeaderOf(tracker_manager_, id).state = 2) )
             => LET slot == tracker_manager_'.track_id_to_pool_index_[id]
                    elems == ElemsOf(tracker_manager_', id)
                IN /\ last'.op = "push"
                   /\ last'.ret = TRUE
                   /\ tracker_manager_.buffer_pool_[slot].header.extrapolation_count =
                         MAX_EXTRAPOLATION_TIMES
                   /\ ~elems[Len(elems)].is_associated
          /\ \A assoc \in BOOLEAN :
                ( /\ isValidTrack(tracker_manager_, id)
                  /\ HeaderOf(tracker_manager_, id).state = 2
                  /\ last'.op = "push"
                  /\ PushTrackPoint(id, assoc) )
                => LET slot == tracker_manager_.track_id_to_pool_index_[id]
                       hid == HeaderOf(tracker_manager_, id).track_id
                   IN /\ last'.ret = FALSE
                      /\ ~isValidTrack(tracker_manager_', hid)
                      /\ isValidTrack(tracker_manager_, hid)
                         => /\ slot \in FreeSet(tracker_manager_')
                            /\ tracker_manager_'.buffer_pool_[slot].header = Header_clear
                            /\ tracker_manager_'.buffer_pool_[slot].data.size_ = 0]_vars

\* the 5th unassociated push on a track that held points has removed it
C9_Witness ==
    /\ last = [op |-> "push", ret |-> FALSE, id |-> 0]
    /\ run.n = MAX_EXTRAPOLATION_TIMES + 2
    /\ ~run.fresh
    /\ ~isValidTrack(tracker_manager_, run.id)
    /\ \E s \in Slots :
          /\ s \in FreeSet(tracker_manager_)
          /\ tracker_manager_.buffer_pool_[s].header = Header_clear

C11_RetiredNeverLive ==
    \A id \in retired : ~isValidTrack(tracker_manager_, id)

\* C11, as the program has it: an id that is not live becomes live only when
\* createTrack issues it, and createTrack issues the value of the counter; as
\* long as clearAll has not been called (and the counter has not wrapped) a
\* deleted id is below the counter and not live; clearAll sets the counter back
\* to 1 and the ids are issued anew.
C11_RetiredLiveOnlyWhenReissued ==
    [][/\ \A id \in Ids :
            (~isValidTrack(tracker_manager_, id) /\ isValidTrack(tracker_manager_', id))
                => /\ last'.op = "create"
                   /\ last'.id = id
                   /\ tracker_manager_.next_track_id_ = id
       /\ ~cleared' =>
            \A id \in retired' :
                /\ ~isValidTrack(tracker_manager_', id)
                /\ id < tracker_manager_'.next_track_id_]_vars

\* two ids were deleted and the track created after them has a greater id
C11_Witness ==
    /\ ~cleared
    /\ Cardinality(retired) >= 2
    /\ last.op = "create"
    /\ last.ret
    /\ isValidTrack(tracker_manager_, last.id)
    /\ \A id \in retired : last.id > id

\* C12: the next-id counter never decreases across any store operation; after
\* create, delete, create the second id is strictly greater than the first.
C12_CounterNeverDecreases ==
    [][/\ tracker_manager_'.next_track_id_ >= tracker_manager_.next_track_id_
       /\ (last'.op = "create" /\ last'.ret)
          => \A id \in retired : last'.id > id]_vars

\* C12, as the program has it: clearAll sets the counter to 1; a successful
\* createTrack returns the counter and adds one to it (modulo 2^32); every other
\* call leaves it unchanged; as long as clearAll has not been called (and the
\* counter has not wrapped) a created id is greater than every deleted id.
C12_CounterDecreasesOnlyOnClear ==
    [][/\ last'.op = "clear" => tracker_manager_'.next_track_id_ = 1
       /\ (last'.op = "create" /\ last'.ret)
          => /\ last'.id = tracker_manager_.next_track_id_
             /\ tracker_manager_'.next_track_id_ =
                    (tracker_manager_.next_track_id_ + 1) % IdModulus
             /\ tracker_manager_'.next_track_id_ > tracker_manager_.next_track_id_
             /\ ~cleared => \A id \in retired : last'.id > id
       /\ (last'.op # "clear" /\ ~(last'.op = "create" /\ last'.ret))
          => tracker_manager_'.next_track_id_ = tracker_manager_.next_track_id_]_vars

\* create, delete, create on a fresh store: the second id follows the first
C12_Witness ==
    /\ ~cleared
    /\ last.op = "create"
    /\ last.ret
    /\ getUsedCount(tracker_manager_) = 1
    /\ retired = {last.id - 1}

\* C13: the number of live ids in the map plus the number of entries of the
\* free-slot list equals the track capacity.
C13_MapPlusFreeIsCapacity ==
    getUsedCount(tracker_manager_) + Len(tracker_manager_.free_slots_) = TrackCap

\* C14: createTrack on a full pool returns 0 and leaves the map, the free
\* list, the used count and the counter unchanged; otherwise it returns the
\* value of the counter and adds one to it, so that on a store of capacity 2
\* the creates return 1 and 2, the third fails, and after deleteTrack(1) the
\* next create returns 3.
C14_CreateOnFullPool ==
    [][last'.op = "create" =>
          IF tracker_manager_.free_slots_ = <<>>
          THEN /\ ~last'.ret
               /\ last'.id = 0
               /\ tracker_manager_' = tracker_manager_
          ELSE /\ last'.ret
               /\ last'.id = tracker_manager_.next_track_id_
               /\ isValidTrack(tracker_manager_', last'.id)
               /\ tracker_manager_'.next_track_id_ =
                      (tracker_manager_.next_track_id_ + 1) % IdModulus
               /\ getUsedCount(tracker_manager_') = getUsedCount(tracker_manager_) + 1]_vars

\* the pool was filled, a create failed, id 1 was deleted and the next create
\* returned the id after the last of the filling
C14_Witness ==
    /\ last = [op |-> "create", ret |-> TRUE, id |-> TrackCap + 1]
    /\ retired = {1}
    /\ DOMAIN tracker_manager_.track_id_to_pool_index_ = 2 .. (TrackCap + 1)
    /\ tracker_manager_.free_slots_ = <<>>
    /\ createTrack(tracker_manager_) = [tm |-> tracker_manager_, ret |-> 0]

\* C15: after clearAll the store is indistinguishable from a freshly
\* constructed one: used count 0, every slot in the free list, the next id is
\* 1, and every later sequence of operations returns what it returns on a
\* fresh store.
C15_ClearAllIsFresh ==
    /\ last.ret = twin.ret
    /\ last.id = twin.id
    /\ Visible(tracker_manager_) = Visible(twin.tm)
    /\ last.op = "clear"
       => /\ getUsedCount(tracker_manager_) = 0
          /\ tracker_manager_.free_slots_ = TrackerManager_init.free_slots_
          /\ FreeSet(tracker_manager_) = Slots
          /\ tracker_manager_.next_track_id_ = 1
          /\ createTrack(tracker_manager_).ret = 1

\* on a store that held points before clearAll and on a fresh store two tracks
\* were created and filled and a merge has succeeded
C15_Witness ==
    /\ last = [op |-> "merge", ret |-> TRUE, id |-> 0]
    /\ twin.ret
    /\ tracker_manager_ # twin.tm
    /\ getUsedCount(tracker_manager_) = 1

\* C16: for every pool slot the header's point count equals the size of the
\* slot's buffer.
C16_PointNumIsSize ==
    \A s \in Slots :
        tracker_manager_.buffer_pool_[s].header.point_num =
            tracker_manager_.buffer_pool_[s].data.size_

(***************************************************************************)
(* Properties of the scheduler.                                            *)
(***************************************************************************)
\* the step of the worker that extracts a command from the queue
WorkerPicks == WorkerScan /\ worker'.pc = "exec"

\* C1: whenever the worker picks the next command to execute, no command of a
\* higher priority class (DRAW > MERGE > CREATE > ADD > CLEAR_ALL) is pending
\* in the queue, also for commands enqueued in the middle of a pass.
C1_NoHigherClassPending ==
    [][WorkerPicks => ~HigherPending(command_queue_', worker'.cmd.type)]_vars

\* C1, as the program has it: whenever the worker picks a command, every
\* pending command of a higher class was enqueued after the current pass had
\* finished its scan for that class (it waits for the next pass).
C1_HigherClassPendingOnlyIfMissed ==
    [][WorkerPicks =>
          \A i \in 1 .. Len(command_queue_') :
              Priority(command_queue_'[i].type) < Priority(worker'.cmd.type)
                  => command_queue_'[i].missed]_vars

\* the worker has picked a command and left one of a higher class pending
C1_Witness ==
    /\ worker.pc = "exec"
    /\ worker.overtook
    /\ worker.cmd.type = "MERGE"
    /\ \E i \in 1 .. Len(command_queue_) :
          command_queue_[i].type = "DRAW" /\ command_queue_[i].missed

\* C2: every CREATE, ADD or DRAW command is executed with exactly the payload
\* its own producer call supplied, also when further calls of the same kind
\* are made before the worker consumes it.
C2_ExecutedWithOwnPayload ==
    (worker.pc = "exec" /\ worker.cmd.type \in Staged)
        => StagingOf(worker.cmd.type) = worker.cmd.given

C19_AcceptedExecutedBeforeExit ==
    worker.pc = "done" =>
        \A i \in 1 .. Len(command_queue_) : command_queue_[i].late

\* C20: after the stop flag is set and the condition variable notified, the
\* worker eventually exits and the destructor's join returns, whether the
\* worker was waiting, scanning or executing (no wake-up is lost).
C20_StopLeadsToExit ==
    (owner = "joining") ~> (worker.pc = "done" /\ owner = "destroyed")

\* the destructor has returned and the worker has exited; the stop came while
\* the worker had executed a command and another was pending
C20_Witness ==
    /\ owner = "destroyed"
    /\ worker.pc = "done"
    /\ worker.prev # "NONE"
    /\ command_queue_ # <<>>

\* C21: no thread ever holds two of the locks (queue lock, staging-buffer
\* lock) at the same time during a producer call or a worker step.
C21_NoThreadHoldsTwoLocks ==
    \A t \in Producers \cup {"worker"} : ~(queue_mutex_ = t /\ buffer_mutex_ = t)

\* C22: only the scheduler worker thread ever reads or mutates the track
\* store: a fusion request given to the facade reaches the store as a MERGE
\* command executed by the worker, and no calling thread calls a store
\* operation directly.
C22_NoCallerTouchesStore ==
    facade.store_thread \notin Producers


(***************************************************************************)
(* Properties of the configuration loader.                                 *)
(***************************************************************************)
\* a line that makes a load fail: an unknown key or a value that does not parse
BadLine(line) ==
    /\ line.kind = "kv"
    /\ \/ line.key \notin {"trackmanager_recv_port", "trackmanager_recv_filters"}
       \/ line.key = "trackmanager_recv_port" /\ ~parsePort(trim(line.value), 0).ok
       \/ line.key = "trackmanager_recv_filters" /\ ~parseFilters(trim(line.value)).ok

FileFails(file) ==
    \/ file = NoFile
    \/ \E i \in 1 .. Len(file) : BadLine(file[i])
    \/ Cardinality({i \in 1 .. Len(file) : file[i].kind = "kv"}) < direct_read_count

\* the lines of a file that give a key
LinesOf(file, key) == {i \in 1 .. Len(file) : file[i].kind = "kv" /\ file[i].key = key}

LastLineOf(file, key) == CHOOSE i \in LinesOf(file, key) : \A j \in LinesOf(file, key) : j <= i

\* the record that holds the values of a file, and the old value of every
\* field the file says nothing about
FileRecord(old, file) ==
    [trackmanager_recv_port |->
        IF LinesOf(file, "trackmanager_recv_port") = {}
        THEN old.trackmanager_recv_port
        ELSE parsePort(trim(file[LastLineOf(file, "trackmanager_recv_port")].value), 0).port,
     trackmanager_recv_filters |->
        IF LinesOf(file, "trackmanager_recv_filters") = {}
        THEN old.trackmanager_recv_filters
        ELSE parseFilters(trim(file[LastLineOf(file, "trackmanager_recv_filters")].value)).filters,
     trackmanager_dst_sockaddr |-> old.trackmanager_dst_sockaddr]

\* C23: a load either fails, returning false and leaving every field of the
\* record as it was before the call, or succeeds and leaves the record with the
\* values of the file; it fails exactly when the file cannot be opened, has a
\* line with an unknown key or an unparsable value, or gives fewer than
\* direct_read_count keys.
C23_ReloadIsAtomic ==
    loaded.called =>
        IF FileFails(loaded.file)
        THEN ~loaded.ret /\ config = loaded.old
        ELSE loaded.ret /\ config = FileRecord(loaded.old, loaded.file)

\* a load that failed on its second line after its first line had written a
\* new port, and whose failing line had cleared the filter list
C23_Witness ==
    /\ loaded.called /\ ~loaded.ret
    /\ Len(loaded.file) >= 2
    /\ loaded.file[1] = KeyValue("trackmanager_recv_port", <<"7", "0">>)
    /\ loaded.file[2] = KeyValue("trackmanager_recv_filters", <<",">>)
    /\ loaded.old.trackmanager_recv_port = 7
    /\ loaded.old.trackmanager_recv_filters # <<>>
    /\ config = loaded.old

\* a file that gives each of the four keys once, each with a valid value
EachKeyOnce(file) ==
    /\ file # NoFile
    /\ Len(file) = 4
    /\ \A key \in {"trackmanager_dst_ip", "trackmanager_dst_port",
                    "trackmanager_recv_port", "trackmanager_recv_filters"} :
           Cardinality(LinesOf(file, key)) = 1
    /\ \A i \in 1 .. Len(file) :
           /\ file[i].key \in {"trackmanager_dst_port", "trackmanager_recv_port"}
                  => parsePort(trim(file[i].value), 0).ok
           /\ file[i].key = "trackmanager_recv_filters"
                  => parseFilters(trim(file[i].value)).ok

\* C24: the load of a file that gives each of the four keys once with a valid
\* value succeeds, and the record holds the file's receive port and filters.
C24_EachKeyOnceLoads ==
    (loaded.called /\ EachKeyOnce(loaded.file)) =>
        /\ loaded.ret
        /\ config.trackmanager_recv_port = FileRecord(loaded.old, loaded.file).trackmanager_recv_port
        /\ config.trackmanager_recv_filters = FileRecord(loaded.old, loaded.file).trackmanager_recv_filters

(***************************************************************************)
(* Properties of the transport: sending.                                   *)
(***************************************************************************)
\* the largest payload of one fragment
MaxFragmentPayload == MAX_SEND_SIZE - HEADER_SIZE

\* the least number of fragments of at most MaxFragmentPayload bytes that
\* hold n bytes
CeilFragments(n) ==
    CHOOSE t \in 1 .. n : t * MaxFragmentPayload >= n /\ (t - 1) * MaxFragmentPayload < n

\* the payloads of the first k datagrams, one after the other
RECURSIVE ConcatPayloads(_, _)
ConcatPayloads(dgrams, k) ==
    IF k = 0 THEN <<>> ELSE ConcatPayloads(dgrams, k - 1) \o Payload(dgrams[k])

\* every datagram on the wire is a fragment with the index of its position,
\* the total count of the payload, at most MaxFragmentPayload bytes, the size
\* and the checksum of the bytes it carries
WireWellFormed ==
    \A k \in 1 .. Len(wire) :
        /\ header_fragment_index(wire[k]) = k - 1
        /\ header_total_fragments(wire[k]) = CeilFragments(WORD_SIZE * Len(sent.data))
        /\ Len(Payload(wire[k])) <= MaxFragmentPayload
        /\ header_fragment_size(wire[k]) = Len(Payload(wire[k]))
        /\ header_checksum(wire[k]) = calculateChecksum(Payload(wire[k]), Len(Payload(wire[k])))

\* C25 as stated: for every payload of N >= 1 words send emits
\* ceil(4N / max_fragment_payload) fragments, indexed 0 .. total-1 in order,
\* each of at most max_fragment_payload bytes and with the checksum of its
\* payload, whose payloads concatenated are the N words of the payload.
C25_EveryPayloadFullyEmitted ==
    (sent.called /\ Len(sent.data) >= 1) =>
        /\ Len(wire) = CeilFragments(WORD_SIZE * Len(sent.data))
        /\ WireWellFormed
        /\ WordsOf(ConcatPayloads(wire, Len(wire))) = sent.data

\* C25, amended: for every payload of N >= 1 words, a send on a valid socket
\* whose sendTo calls all succeed returns true and has emitted
\* ceil(4N / max_fragment_payload) fragments, indexed 0 .. total-1 in order,
\* each of at most max_fragment_payload bytes and with the checksum of its
\* payload, whose payloads concatenated are the N words of the payload; a send
\* that returns false has emitted fewer fragments, which are the first ones of
\* that sequence.
C25_SuccessfulSendFullyEmitted ==
    (sent.called /\ Len(sent.data) >= 1) =>
        /\ WireWellFormed
        /\ IF sent.ret
           THEN /\ Len(wire) = CeilFragments(WORD_SIZE * Len(sent.data))
                /\ WordsOf(ConcatPayloads(wire, Len(wire))) = sent.data
           ELSE /\ Len(wire) < CeilFragments(WORD_SIZE * Len(sent.data))
                /\ ConcatPayloads(wire, Len(wire))
                       = SubSeq(RawData(sent.data), 1, Len(wire) * MaxFragmentPayload)

\* a send of three fragments, the last one shorter than the others
C25_Witness ==
    /\ sent.called /\ sent.ret
    /\ Len(wire) = 3
    /\ Len(Payload(wire[1])) = MaxFragmentPayload
    /\ Len(Payload(wire[3])) < MaxFragmentPayload

\* the packet id of a datagram as a text: the bytes before the first zero
PacketIdText(dgram) ==
    LET id == header_packet_id(dgram)
        zeros == {i \in 1 .. Len(id) : id[i] = 0}
    IN IF zeros = {} THEN id
       ELSE SubSeq(id, 1, (CHOOSE i \in zeros : \A j \in zeros : i <= j) - 1)

\* C26: the header is 160 bytes, so a fragment carries at most 3936 bytes, and
\* 2000 words are sent as 3 datagrams of 3936, 3936 and 128 payload bytes with
\* the packet ids TRACK_PACKET_0_3, TRACK_PACKET_1_3, TRACK_PACKET_2_3.
C26_TwoThousandWords ==
    (sent.called /\ sent.ret /\ Len(sent.data) = 2000) =>
        /\ HEADER_SIZE = 160
        /\ MAX_SEND_SIZE - HEADER_SIZE = 3936
        /\ Len(wire) = 3
        /\ <<Len(wire[1]) - 160, Len(wire[2]) - 160, Len(wire[3]) - 160>> = <<3936, 3936, 128>>
        /\ \A k \in 1 .. 3 :
               PacketIdText(wire[k]) = TRACK_PACKET_ID \o <<95>> \o to_string(k - 1) \o <<95, 51>>

(***************************************************************************)
(* Properties of the transport: receiving.                                 *)
(***************************************************************************)
\* the packet id of a datagram contains one of the filters of the
\* configuration
ContainsConfiguredFilter(dgram) ==
    \E k \in 1 .. Len(config.trackmanager_recv_filters) :
        Find(PacketIdText(dgram), TextBytes(config.trackmanager_recv_filters[k])) # 0

\* the six checks of a datagram
PassesAllChecks(dgram) ==
    /\ Len(dgram) >= HEADER_SIZE
    /\ Len(Payload(dgram)) = header_fragment_size(dgram)
    /\ header_fragment_index(dgram) < header_total_fragments(dgram)
    /\ Len(Payload(dgram)) % WORD_SIZE = 0
    /\ ContainsConfiguredFilter(dgram)
    /\ calculateChecksum(Payload(dgram), Len(Payload(dgram))) = header_checksum(dgram)

\* C27: the receiver appends the payload of a datagram only if the datagram
\* has at least the size of a header, its payload has the size the header
\* gives, its index is below its total, its payload is whole words, its packet
\* id contains a configured filter and its checksum is the payload's.
C27_AppendedOnlyIfAllChecks ==
    receiver.outcome = "appended" => PassesAllChecks(receiver.dgram)

\* C28: a datagram that is an acceptable datagram with one byte altered is
\* rejected and nothing of it is appended.
C28_AlteredIsRejected ==
    receiver.dgram \in AlteredDatagrams => receiver.outcome # "appended"

\* C29: the receive buffer never holds more than RECV_BUFFER_CAPACITY words; a
\* validated datagram whose words would take the buffer past the capacity is
\* dropped and the buffer is left as it was, and one whose words fit is
\* appended whole.
C29_BufferWithinCapacity ==
    [][/\ Len(recv_buffer_') <= RECV_BUFFER_CAPACITY
       /\ (receiver.pc = "append" /\ receiver'.pc = "recv") =>
              IF Len(recv_buffer_) + Len(WordsOf(Payload(receiver.dgram))) > RECV_BUFFER_CAPACITY
              THEN recv_buffer_' = recv_buffer_ /\ receiver'.outcome = "full"
              ELSE recv_buffer_' = recv_buffer_ \o WordsOf(Payload(receiver.dgram))]_vars

\* a validated datagram was dropped because the buffer, not empty, had no
\* room for its words
C29_Witness ==
    /\ receiver.outcome = "full"
    /\ recv_buffer_ # <<>>
    /\ Len(recv_buffer_) <= RECV_BUFFER_CAPACITY
    /\ Len(recv_buffer_) + Len(WordsOf(Payload(receiver.dgram))) > RECV_BUFFER_CAPACITY

\* the vectors of a sequence, one after the other
RECURSIVE Flatten(_, _)
Flatten(vectors, k) ==
    IF k = 0 THEN <<>> ELSE Flatten(vectors, k - 1) \o vectors[k]

\* the words appended so far are the words returned so far followed by the
\* words in the buffer, and every returned vector is made of whole datagrams
NothingLostOrSplit ==
    LET results == [i \in 1 .. Len(rxlog.taken) |-> rxlog.taken[i].result]
        chunks == [i \in 1 .. Len(rxlog.taken) |-> rxlog.taken[i].chunks]
    IN /\ Flatten(rxlog.accepted, Len(rxlog.accepted))
              = Flatten(results, Len(results)) \o recv_buffer_
       /\ rxlog.accepted = Flatten(chunks, Len(chunks)) \o rxlog.chunks
       /\ \A i \in 1 .. Len(rxlog.taken) :
              rxlog.taken[i].result = Flatten(rxlog.taken[i].chunks, Len(rxlog.taken[i].chunks))

\* C30: with the receive thread appending and consumers reading, every
\* appended word is returned by one read or is still in the buffer, in the
\* order of arrival, the words of one datagram are returned by one read, and
\* the buffer is empty right after every read.
C30_ReadsPartitionTheWords ==
    [][/\ NothingLostOrSplit'
       /\ Len(rxlog.taken') > Len(rxlog.taken) => recv_buffer_' = <<>>]_vars

\* two datagrams were appended and two reads returned one each
C30_Witness ==
    /\ Len(rxlog.accepted) = 2
    /\ Len(rxlog.taken) = 2
    /\ rxlog.taken[1].result # <<>>
    /\ rxlog.taken[2].result # <<>>
    /\ rxlog.taken[1].result # rxlog.taken[2].result
    /\ recv_buffer_ = <<>>

(***************************************************************************)
(* Properties of the store over a long life.                               *)
(***************************************************************************)
\* C40: createTrack returns 0 if and only if the pool is full, and never
\* returns an id that is live at the call, also after the counter of the ids
\* has wrapped.
C40_ZeroIffFullAndNeverLive ==
    [][last'.op = "create" =>
          /\ (last'.id = 0) <=> (tracker_manager_.free_slots_ = <<>>)
          /\ last'.id # 0 => ~isValidTrack(tracker_manager_, last'.id)]_vars

(* Properties of one CREATE command. *)
\* the ids the executed CREATE command added to the store
CreatedIds ==
    DOMAIN tracker_manager_'.track_id_to_pool_index_
        \ DOMAIN tracker_manager_.track_id_to_pool_index_

\* the number of tracks a CREATE command with n arrays makes on f free slots
CreatedCount ==
    IF Len(create_buffer_) <= Len(tracker_manager_.free_slots_)
    THEN Len(create_buffer_)
    ELSE Len(tracker_manager_.free_slots_)

\* the store after every array of a payload was handled on its own: a failed
\* create or push costs the track of that array only, and the next array is
\* taken up whatever happened to the one before
RECURSIVE EachArrayAlone(_, _, _)
EachArrayAlone(tm, new_track, i) ==
    IF i > Len(new_track)
    THEN tm
    ELSE LET c == createTrack(tm)
         IN EachArrayAlone(IF c.ret = 0
                           THEN c.tm
                           ELSE CreatePoints(c.tm, c.ret, new_track[i], 1).tm,
                           new_track, i + 1)

C36_CreatedTracksAreNormal ==
    [][last'.op = "process_create" =>
          \A id \in CreatedIds :
             /\ HeaderOf(tracker_manager_', id).state = 0
             /\ HeaderOf(tracker_manager_', id).extrapolation_count = 0
             /\ Len(ElemsOf(tracker_manager_', id)) = ArrayPoints]_vars

(* Properties of the latest-K buffer. *)
\* C33: after n pushes since the constructor or the last clear, a buffer of
\* capacity k holds min(n, k) elements and its index i (from 0) yields the
\* (n - size + i + 1)-th element pushed; right after clear the buffer is as a
\* fresh one (no element, head and tail at cell 0, not full).
C33_LatestKRetained ==
    LET n == Len(ring.pushed)
        size == ring.buf.size_
    IN /\ size = (IF n <= PointCap THEN n ELSE PointCap)
       /\ \A i \in 0 .. (size - 1) : Buffer_at(ring.buf, i) = ring.pushed[n - size + i + 1]
       /\ ring.buf.full_ = (n >= PointCap)
       /\ n = 0 => (ring.buf.head_ = 0 /\ ring.buf.tail_ = 0)

\* after a clear, more items than the buffer holds were pushed
C33_Witness ==
    /\ ring.cleared
    /\ Len(ring.pushed) > PointCap
    /\ ring.buf.tail_ # 0

(* Properties of the receive thread's life. *)
\* caller c returns from reload with this step
ReloadReturns(c) ==
    /\ caller[c].op = "reload"
    /\ caller[c].pc # "idle"
    /\ caller'[c].pc = "idle"

\* no other thread has called into the object so far
CallsAlone(c) ==
    \A d \in Callers \ {c} : caller[d].calls = 0 /\ caller[d].op = "none"

\* C31: when a call of reload returns (the receive socket being valid), the old
\* receive thread has exited, no word the old thread received is left in the
\* receive buffer, and a new receive thread is running with is_receiving_ set,
\* however the stop request and the exit sequence of the thread interleave.
C31_ReloadRestartsReceiving ==
    [][\A c \in Callers :
          (ReloadReturns(c) /\ CallsAlone(c)) =>
             /\ recv_thread_' # 0
             /\ rxthread'[recv_thread_'] \in {"test", "recv"}
             /\ \A t \in ThreadIds \ {recv_thread_'} : rxthread'[t] \in {"unborn", "done"}
             /\ \A i \in 1 .. Len(recv_buffer_') : recv_buffer_'[i] = recv_thread_'
             /\ is_receiving_']_vars

\* C32: once a caller has set the stop flag and waits in join, the receive
\* thread observes the flag and exits, so the caller leaves join, also when no
\* datagram arrives any more.
C32_JoiningCallerReturns ==
    \A c \in Callers :
       (caller[c].pc = "joining" /\ ~crashed) ~> (caller[c].pc # "joining" \/ crashed)

\* C39: with reload called from several threads at once, at most one receive
\* thread exists at any time, no two callers are joining the thread of the
\* handle or have found the handle changed under them, and no call is cut short
\* by the termination of the process.
C39_OneThreadOneJoiner ==
    /\ Cardinality(Running) <= 1
    /\ \A c \in Callers, d \in Callers :
          (c # d /\ caller[c].pc = "joining" /\ caller[d].pc = "joining") =>
              caller[c].target # caller[d].target
    /\ ~crashed

(* Properties of the staging buffers and the locks of the scheduler. *)
\* producer p copies a payload into the staging buffer of a type with this step
Copies(p, type) ==
    /\ producer[p].pc = "idle"
    /\ producer'[p].pc = "staged"
    /\ producer'[p].cmd.type = type

\* the worker is inside process_command on a command of the type, whose payload
\* it reads through the pointer to the staging buffer
WorkerReads(type) == worker.pc = "exec" /\ worker.cmd.type = type

\* C34: while a producer call copies a new payload into a staging buffer
\* (create_buffer_, add_buffer_, draw_buffer_), the worker is not executing an
\* earlier command of that kind, which reads the same buffer.
C34_NoCopyWhileWorkerReads ==
    [][\A p \in Producers, type \in {"CREATE", "ADD", "DRAW"} :
          Copies(p, type) => ~WorkerReads(type)]_vars

\* C38: the worker does not hold the queue lock while it executes a command;
\* the lock is held for the scan and the extraction only, so that a producer
\* can take it and enqueue during the execution.
C38_ExecutesWithoutQueueLock ==
    /\ worker.pc = "exec" => queue_mutex_ # "worker"
    /\ queue_mutex_ = "worker" <=> worker.pc = "locked"

\* a producer holds the queue lock while the worker executes a command
C38_Witness ==
    /\ worker.pc = "exec"
    /\ \E p \in Producers : queue_mutex_ = p /\ producer[p].pc = "locked"

(* Properties of the scheduler that runs on. *)
\* the commands accepted so far that the worker has neither executed nor taken
InFlight == Len(command_queue_) + (IF worker.pc = "exec" THEN 1 ELSE 0)

\* C37: when shutdown is not requested (the producers stop after finitely many
\* calls), the n-th command accepted into the queue is eventually executed, and
\* at all times every accepted command is in the queue, in the worker's hands
\* or executed, never two of these and never executed twice; this whatever the
\* outcome of the commands and wherever the worker is when the command comes.
C37_AcceptedExecutedOnce ==
    /\ [](worker.executed + InFlight = enqueued)
    /\ ([](owner = "alive")) =>
          \A n \in 1 .. MaxCmds : (enqueued >= n) ~> (worker.executed >= n)

\* every call was made, the last command came while the worker was blocked in
\* its wait, both commands were merges of unknown ids, and both were executed
C37_Witness ==
    /\ owner = "alive"
    /\ enqueued = MaxCmds
    /\ worker.executed = MaxCmds
    /\ worker.pc = "blocked"
    /\ worker.prev = "MERGE"
    /\ DOMAIN tracker_manager_.track_id_to_pool_index_ = {}

====
